---- MODULE Spec2Model ----
(***************************************************************************)
(* Model of the rate-limiting, retry and circuit-breaking layer of the     *)
(* social agent: utils.RateLimiter (multi-window token bucket),            *)
(* retry.retry_with_backoff / utils.retry_with_backoff, and                *)
(* circuit_breaker.CircuitBreaker, and of the calls these guard when the   *)
(* decorators are stacked: circuit_breaker outside a rate-limited, retried *)
(* function (utils.rate_limit / rate_limiter.rate_limit / post_tweet), and *)
(* retry_with_backoff outside circuit_breaker.                             *)
(*                                                                         *)
(* Time is counted in whole seconds.  A window's token count is a float in *)
(* the source; here tokens[w] holds the count multiplied by that window's  *)
(* time_window, so that the refill  time_passed * max_requests /           *)
(* time_window  is the integer  time_passed * max_requests  and "one       *)
(* token" is time_window units.  All time windows used are powers of two,  *)
(* for which the source's float arithmetic is exact as well.               *)
(*                                                                         *)
(* The jobs of the agent run in threads (main.py: BackgroundScheduler),    *)
(* and no decorator holds a lock.  A call through the stacked decorators   *)
(* is a sequence of steps, one for each access of the calling thread to    *)
(* the breaker's fields, to a request log, to the token bucket or to the   *)
(* clock; a thread waits inside the operation (the request to the API that *)
(* the innermost function makes) and inside time.sleep.  The steps of      *)
(* other threads and the clock go on in between.                           *)
(***************************************************************************)
EXTENDS Integers, Sequences, FiniteSets, TLC

VARIABLES
    now,            \* the value time.time() returns
    op,             \* the operation that ran last
    ret,            \* what it returned
    limits,         \* RateLimiter.limits, in dict order
    tokens,         \* RateLimiter.tokens (scaled by time_window)
    last_update,    \* RateLimiter.last_update
    admitted,       \* history: the times at which acquire() returned True
    thr,            \* per thread: its position and locals inside acquire()
    max_retries,    \* retry_with_backoff: the decorator's arguments
    initial_delay,
    max_delay,
    backoff_factor,
    exceptions,
    calls,          \* history: the invocations the last call made
    delays,         \* history: the durations it passed to time.sleep
    outcome,        \* what its caller gets
    failure_threshold,  \* CircuitBreaker: constructor arguments
    recovery_timeout,
    expected_exception,
    state,              \* CircuitBreaker.state
    failure_count,      \* CircuitBreaker.failure_count
    last_failure_time,  \* CircuitBreaker.last_failure_time
    streak,         \* history: record_failure() calls since the last
                    \* record_success() (or since construction)
    prev,           \* history: the breaker's fields before the last step
                    \* taken on the breaker
    func,           \* the function behind the circuit_breaker decorator
    max_requests,   \* rate_limit: the decorator's arguments
    time_window,
    requests,       \* rate_limit: the timestamps of the admitted calls
    g,              \* history: what the last guarded call did
    bucket,         \* a RateLimiter with float token counts
    reordered,      \* the same limiter built with its windows in reverse
                    \* order, receiving the same calls
    unprobed,       \* the same limiter, receiving only the admitted calls
    client,         \* per thread: the XAPIClient instance it calls through
    task,           \* per task: its position inside the breaker's wrapper
    wall,           \* the float that time.time() returns
    logs,           \* the request logs of utils.rate_limit and of
                    \* rate_limiter.RateLimiter, receiving the same calls
    max_size,       \* Cache: constructor arguments
    ttl,
    cache,          \* Cache.cache, in the order of the OrderedDict
    timestamps,     \* Cache.timestamps
    arg,            \* the arguments of the last Cache call
    before,         \* history: the cache and the uses before the last call
    hist,           \* history: per key its last set(); the keys in the
                    \* order of their last use
    frame           \* per thread: the call it is in, with the locals of
                    \* the retry wrapper while the thread is inside the
                    \* operation or inside time.sleep

limiter_vars == <<limits, tokens, last_update, admitted, thr>>

retry_vars == <<max_retries, initial_delay, max_delay, backoff_factor,
                exceptions, calls, delays, outcome>>

breaker_vars == <<failure_threshold, recovery_timeout, expected_exception,
                  state, failure_count, last_failure_time, streak, prev>>

gate_vars == <<func, max_requests, time_window, requests, g>>

float_vars == <<bucket, reordered, unprobed>>

client_vars == <<client>>

log_vars == <<wall, logs>>

cache_vars == <<max_size, ttl, cache, timestamps, arg, before, hist>>

rest_vars == <<log_vars, cache_vars, frame>>

other_vars == <<float_vars, client_vars, task, rest_vars>>

vars == <<now, op, ret, limiter_vars, retry_vars, breaker_vars, gate_vars,
          other_vars>>

\* ------------------------------------------------------------------ bounds
MaxTime == 6
MaxConcTime == 1
MaxCalls == 1
MaxRetries == 2
MaxFailures == 4
MaxFloatTime == 6
MaxOverlapTime == 2
MaxTaskCalls == 2
MaxLogTime == 4
MaxCacheTime == 2
MaxThreadTime == 2

\* ----------------------------------------------------------------- helpers
Min(a, b) == IF a <= b THEN a ELSE b
Max(a, b) == IF a >= b THEN a ELSE b

\* ------------------------------------------- utils.RateLimiter (token bucket)
\* The limits dicts the limiter is constructed with, as the ordered list of
\* their items.  XAPIClient builds three windows ('15m', '1d', '30d'); the
\* configurations here keep that shape with small numbers.
LimitConfigs ==
    { << [window |-> "15m", max_requests |-> 2, time_window |-> 4] >>,
      << [window |-> "15m", max_requests |-> 2, time_window |-> 2],
         [window |-> "1d",  max_requests |-> 1, time_window |-> 4] >>,
      << [window |-> "1d",  max_requests |-> 1, time_window |-> 4],
         [window |-> "15m", max_requests |-> 2, time_window |-> 2] >> }

\* one of them
TwoWindows ==
    << [window |-> "15m", max_requests |-> 2, time_window |-> 2],
       [window |-> "1d",  max_requests |-> 1, time_window |-> 4] >>

Windows(lim) == {lim[i].window : i \in 1..Len(lim)}

limit_of(lim, w) == lim[CHOOSE i \in 1..Len(lim) : lim[i].window = w]

\* one token, in the units of tokens[w]
OneToken(limit) == limit.time_window

\* capacity of a window, in the units of tokens[w]
Capacity(limit) == limit.max_requests * limit.time_window

\* buckets that start one token short of full
init_tokens_short(lim) ==
    [w \in Windows(lim) |->
        Capacity(limit_of(lim, w)) - OneToken(limit_of(lim, w))]

\* RateLimiter.__init__: full buckets, stamped with the construction time
init_tokens(lim) == [w \in Windows(lim) |-> Capacity(limit_of(lim, w))]

init_last_update(lim, t) == [w \in Windows(lim) |-> t]

\* a refill that forgets the clamp to max_requests
refill_unclamped(limit, tok, time_passed) ==
    tok + time_passed * limit.max_requests

\* min(max_requests, tokens + time_passed * max_requests / time_window)
refill(limit, tok, time_passed) ==
    Min(Capacity(limit), tok + time_passed * limit.max_requests)

\* the first loop of acquire(): refill window by window, in dict order, and
\* return False at the first window holding less than one token
RECURSIVE acquire_check(_, _, _, _, _)
acquire_check(lim, i, tok, lu, t) ==
    IF i > Len(lim)
    THEN [tokens |-> tok, last_update |-> lu, ok |-> TRUE]
    ELSE LET w    == lim[i].window
             tok1 == [tok EXCEPT ![w] = refill(lim[i], tok[w], t - lu[w])]
             lu1  == [lu EXCEPT ![w] = t]
         IN  IF tok1[w] < OneToken(lim[i])
             THEN [tokens |-> tok1, last_update |-> lu1, ok |-> FALSE]
             ELSE acquire_check(lim, i + 1, tok1, lu1, t)

\* the second loop of acquire(): one token off every window
acquire_deduct(lim, tok) ==
    [w \in DOMAIN tok |-> tok[w] - OneToken(limit_of(lim, w))]

\* an acquire() that, when some window is short, still takes a token from
\* every window that holds one
acquire_result_partial(lim, tok, lu, t) ==
    LET c == acquire_check(lim, 1, tok, lu, t)
    IN  [tokens |-> [w \in DOMAIN tok |->
                        IF c.tokens[w] >= limit_of(lim, w).time_window
                        THEN c.tokens[w] - limit_of(lim, w).time_window
                        ELSE c.tokens[w]],
         last_update |-> c.last_update, ok |-> c.ok]

\* RateLimiter.acquire() as a function of the limiter's state and the time
acquire_result(lim, tok, lu, t) ==
    LET c == acquire_check(lim, 1, tok, lu, t)
    IN  IF c.ok
        THEN [tokens |-> acquire_deduct(lim, c.tokens),
              last_update |-> c.last_update, ok |-> TRUE]
        ELSE c

\* ------------------------------------- utils.RateLimiter in float arithmetic
\* RateLimiter.tokens holds Python floats.  With time windows that are not
\* powers of two the quotient  time_passed * max_requests / time_window  and
\* the sum  tokens + quotient  are rounded, so the token count is modelled
\* here bit by bit: a float x, 0 <= x < 2^IntBits, is the sequence of the bits
\* of x * 2^FracBits, lowest bit first.  Every float that occurs is at least
\* 2^-8 or a difference of such floats, hence a multiple of 2^-FracBits.
Precision == 53
FracBits == 64
IntBits == 8
FLen == FracBits + IntBits

RECURSIVE Pow2(_)
Pow2(n) == IF n = 0 THEN 1 ELSE 2 * Pow2(n - 1)

\* float(n) for an integer 0 <= n < 2^IntBits
FInt(n) ==
    [i \in 1..FLen |-> IF i <= FracBits THEN 0
                       ELSE (n \div Pow2(i - FracBits - 1)) % 2]

\* int(x): the integer part of x
RECURSIVE IntPartFrom(_, _)
IntPartFrom(x, j) ==
    IF j > IntBits THEN 0
    ELSE x[FracBits + j] * Pow2(j - 1) + IntPartFrom(x, j + 1)

IntPart(x) == IntPartFrom(x, 1)

\* x + y, exactly: the bits from position i on, given the carry into i
\* Sums are taken limb by limb: FLen is three limbs of LimbBits bits.
LimbBits == 24

\* the value of the n bits of x from position lo on
RECURSIVE LimbFrom(_, _, _)
LimbFrom(x, lo, n) ==
    IF n = 0 THEN 0 ELSE x[lo] + 2 * LimbFrom(x, lo + 1, n - 1)

\* the k-th limb of x
Limb(x, k) == LimbFrom(x, (k - 1) * LimbBits + 1, LimbBits)

\* x + y modulo 2^FLen
ExactSum(x, y) ==
    LET s1 == Limb(x, 1) + Limb(y, 1)
        s2 == Limb(x, 2) + Limb(y, 2) + s1 \div Pow2(LimbBits)
        s3 == Limb(x, 3) + Limb(y, 3) + s2 \div Pow2(LimbBits)
        limbs == <<s1, s2, s3>>
    IN  [i \in 1..FLen |->
            (limbs[(i - 1) \div LimbBits + 1]
                 \div Pow2((i - 1) % LimbBits)) % 2]

\* the position of the leading 1 of x, 0 for x = 0
Top(x) ==
    IF \E i \in 1..FLen : x[i] = 1
    THEN CHOOSE i \in 1..FLen : x[i] = 1 /\ \A j \in (i + 1)..FLen : x[j] = 0
    ELSE 0

\* IEEE 754 round-to-nearest, ties-to-even, to Precision significant bits,
\* of the exact value x (plus something below its last bit when sticky)
RoundNearestEven(x, sticky) ==
    LET cut == Top(x) - Precision
    IN  IF cut <= 0 THEN x
        ELSE LET guard == x[cut]
                 rest  == sticky \/ \E i \in 1..(cut - 1) : x[i] = 1
                 kept  == [i \in 1..FLen |-> IF i <= cut THEN 0 ELSE x[i]]
                 ulp   == [i \in 1..FLen |-> IF i = cut + 1 THEN 1 ELSE 0]
             IN  IF guard = 1 /\ (rest \/ x[cut + 1] = 1)
                 THEN ExactSum(kept, ulp)
                 ELSE kept

\* the float x + y
FloatAdd(x, y) == RoundNearestEven(ExactSum(x, y), FALSE)

\* long division: the fraction bits of r / d from the k-th on, prepended to
\* acc so that the lowest bit comes first, and the last remainder
RECURSIVE Pow2Mod(_, _)
Pow2Mod(k, d) ==
    IF k = 0 THEN 1 % d
    ELSE LET h == Pow2Mod(k \div 2, d)
         IN  (h * h * (IF k % 2 = 1 THEN 2 ELSE 1)) % d

\* (n * 2^k) mod d
Remainder(n, d, k) == ((n % d) * Pow2Mod(k, d)) % d

\* the k-th binary digit of n / d after the point
FractionBit(n, d, k) == (2 * Remainder(n, d, k - 1)) \div d

\* the float n / d for integers n >= 0, d > 0
FloatDiv(n, d) ==
    LET x == [i \in 1..FLen |->
                 IF i <= FracBits THEN FractionBit(n, d, FracBits + 1 - i)
                 ELSE ((n \div d) \div Pow2(i - FracBits - 1)) % 2]
    IN  RoundNearestEven(x, Remainder(n, d, FracBits) # 0)

\* x - y for x >= y, before rounding
ExactDiff(x, y) ==
    ExactSum(ExactSum(x, [i \in 1..FLen |-> 1 - y[i]]),
             [i \in 1..FLen |-> IF i = 1 THEN 1 ELSE 0])

\* the float x - y for x >= y
FloatSub(x, y) == RoundNearestEven(ExactDiff(x, y), FALSE)

\* x < y
FloatLess(x, y) ==
    \E i \in 1..FLen :
        /\ x[i] = 0
        /\ y[i] = 1
        /\ \A j \in (i + 1)..FLen : x[j] = y[j]

\* x < 1
LessThanOne(x) == IntPart(x) = 0

\* x - 1 for x >= 1, which is exact
MinusOne(x) ==
    LET n == IntPart(x) - 1
    IN  [i \in 1..FLen |-> IF i <= FracBits THEN x[i]
                           ELSE (n \div Pow2(i - FracBits - 1)) % 2]

\* min(n, x) for an integer n
FloatMin(n, x) == IF IntPart(x) >= n THEN FInt(n) ELSE x

\* the threads that reach x_client.rate_limiter.acquire(): the scheduler's
\* worker running the 'content_creation' job and the main thread, which
\* start() sends into create_and_post_content() after scheduler.start()
Threads == {"content_job", "startup"}

idle_thread ==
    [pc |-> "idle", now |-> 0, i |-> 0, time_passed |-> 0, tmp |-> 0,
     calls |-> 0, ok |-> FALSE]

\* ------------------------------------------------------ retry_with_backoff
\* The exception classes the wrapped function raises.  KeyboardInterrupt
\* derives from BaseException only, the other two from Exception, as does
\* the TypeError of  raise None.
ExceptionClasses == {"ConnectionError", "ValueError", "KeyboardInterrupt"}

\* how an invocation of the wrapped function ends: "ok" or the class of the
\* error it raises
Outcomes == {"ok"} \cup ExceptionClasses

\* an isinstance that takes every error for an instance of every class
isinstance_any(cls, of) == TRUE

\* isinstance(e, of) for an error e of class cls, as  except <of>  tests it
isinstance(cls, of) ==
    \/ of = cls
    \/ of = "BaseException"
    \/ of = "Exception" /\ cls \in {"ConnectionError", "ValueError",
                                    "TypeError", "IndexError"}

\* the results a call can end with
returned(k) ==
    [kind |-> "return", cls |-> "result", attempt |-> k, wrapped |-> FALSE]

raised(cls, k) ==
    [kind |-> "raise", cls |-> cls, attempt |-> k, wrapped |-> FALSE]

\* last_exception = None
None == [cls |-> "None", attempt |-> 0]

\* the caller has no result yet
no_outcome ==
    [kind |-> "none", cls |-> "None", attempt |-> 0, wrapped |-> FALSE]

\* raise last_exception, where last_exception is None when func never ran:
\* raising None is a TypeError
raise_last(last_exception) ==
    IF last_exception = None
    THEN raised("TypeError", 0)
    ELSE raised(last_exception.cls, last_exception.attempt)

\* a function that returns None
returned_None ==
    [kind |-> "return", cls |-> "None", attempt |-> 0, wrapped |-> FALSE]

\* the wrapper's loop has ended: the call made the invocations cs, slept the
\* delays ds and gives its caller o
loop_ends(cs, ds, o) ==
    [pc |-> "done", retry |-> 0, delay |-> 0, last_exception |-> None,
     calls |-> cs, delays |-> ds, outcome |-> o]

\* the wrapper is in time.sleep(ds[Len(ds)]); n, d and le are retry (or
\* attempt), delay and last_exception for the iteration that follows
loop_sleeps(n, d, le, cs, ds) ==
    [pc |-> "sleep", retry |-> n, delay |-> d, last_exception |-> le,
     calls |-> cs, delays |-> ds, outcome |-> no_outcome]

\* the wrapper is in  return func(*args, **kwargs)  of iteration n: func has
\* been invoked and has not returned
loop_invokes(n, d, le, cs, ds) ==
    [pc |-> "invoke", retry |-> n, delay |-> d, last_exception |-> le,
     calls |-> cs, delays |-> ds, outcome |-> no_outcome]

\* a wrapper that, once an attempt has failed, raises that error even when a
\* later attempt succeeds
retry_wrapper_stale(a, retry, delay, last_exception, cs, ds, x) ==
    IF retry > a.max_retries
    THEN loop_ends(cs, ds, IF last_exception # None
                           THEN raise_last(last_exception)
                           ELSE returned_None)
    ELSE LET k   == Len(cs) + 1
             cs1 == Append(cs, x)
         IN  IF x = "ok"
             THEN loop_ends(cs1, ds, IF last_exception # None
                                     THEN raise_last(last_exception)
                                     ELSE returned(k))
             ELSE IF ~isinstance(x, a.exceptions)
             THEN loop_ends(cs1, ds, raised(x, k))
             ELSE IF retry = a.max_retries
             THEN loop_ends(cs1, ds, raised(x, k))
             ELSE loop_sleeps(retry + 1,
                              Min(delay * a.backoff_factor, a.max_delay),
                              [cls |-> x, attempt |-> k],
                              cs1, Append(ds, delay))

\* retry.retry_with_backoff: the wrapper's loop at iteration `retry`, from
\* the return of func, which ends as x says, to time.sleep or to the end of
\* the call.  A loop that has no iteration left invokes nothing; one that
\* never ran (max_retries < 0) leaves last_exception None, and the wrapper
\* returns None.
retry_wrapper(a, retry, delay, last_exception, cs, ds, x) ==
    IF retry > a.max_retries
    THEN loop_ends(cs, ds, IF last_exception # None
                           THEN raise_last(last_exception)
                           ELSE returned_None)
    ELSE LET k   == Len(cs) + 1
             cs1 == Append(cs, x)
         IN  IF x = "ok"
             THEN loop_ends(cs1, ds, returned(k))
             ELSE IF ~isinstance(x, a.exceptions)
             THEN loop_ends(cs1, ds, raised(x, k))
             ELSE IF retry = a.max_retries
             THEN loop_ends(cs1, ds, raised(x, k))
             ELSE loop_sleeps(retry + 1,
                              Min(delay * a.backoff_factor, a.max_delay),
                              [cls |-> x, attempt |-> k],
                              cs1, Append(ds, delay))

\* a wrapper whose loop runs two rounds longer
utils_wrapper_longer(a, attempt, delay, last_exception, cs, ds, x) ==
    IF attempt >= a.max_retries + 2
    THEN loop_ends(cs, ds, raise_last(last_exception))
    ELSE LET k   == Len(cs) + 1
             cs1 == Append(cs, x)
             le  == [cls |-> x, attempt |-> k]
         IN  IF x = "ok"
             THEN loop_ends(cs1, ds, returned(k))
             ELSE IF ~isinstance(x, "Exception")
             THEN loop_ends(cs1, ds, raised(x, k))
             ELSE IF attempt < a.max_retries + 1
             THEN loop_sleeps(attempt + 1, delay * 2, le, cs1,
                              Append(ds, delay))
             ELSE loop_ends(cs1, ds, raise_last(le))

\* utils.retry_with_backoff: the wrapper's loop at iteration `attempt`,
\* from the return of func, which ends as x says, to time.sleep or to the end
\* of the call.  After the last iteration the loop is over and the wrapper
\* raises last_exception.
utils_wrapper(a, attempt, delay, last_exception, cs, ds, x) ==
    IF attempt >= a.max_retries
    THEN loop_ends(cs, ds, raise_last(last_exception))
    ELSE LET k   == Len(cs) + 1
             cs1 == Append(cs, x)
             le  == [cls |-> x, attempt |-> k]
         IN  IF x = "ok"
             THEN loop_ends(cs1, ds, returned(k))
             ELSE IF ~isinstance(x, "Exception")
             THEN loop_ends(cs1, ds, raised(x, k))
             ELSE IF attempt < a.max_retries - 1
             THEN loop_sleeps(attempt + 1, delay * 2, le, cs1,
                              Append(ds, delay))
             ELSE loop_ends(cs1, ds, raise_last(le))

\* the decorator's arguments and the wrapped function, as one record
retry_args ==
    [max_retries |-> max_retries, initial_delay |-> initial_delay,
     max_delay |-> max_delay, backoff_factor |-> backoff_factor,
     exceptions |-> exceptions]

\* a thread outside every wrapper
idle_frame ==
    [pc |-> "idle", impl |-> "none", retry |-> 0, delay |-> 0,
     last_exception |-> None, calls |-> << >>, delays |-> << >>,
     wake |-> 0, checks |-> 0, reports |-> << >>, consulted |-> 0]

\* a thread whose call has begun, before the first iteration of the loop
new_frame(impl) ==
    [idle_frame EXCEPT !.pc = "running", !.impl = impl,
                       !.delay = initial_delay]

\* the thread of the frame fr waits, at time t, where the loop is at s:
\* inside the operation, or in time.sleep until t + delay; chk calls of
\* can_execute(), the reports rep and asked calls of the limiter lie behind
waiting_frame(fr, s, t, chk, rep, asked) ==
    [pc |-> IF s.pc = "sleep" THEN "sleeping" ELSE "operation",
     impl |-> fr.impl, retry |-> s.retry, delay |-> s.delay,
     last_exception |-> s.last_exception, calls |-> s.calls,
     delays |-> s.delays,
     wake |-> IF s.pc = "sleep" THEN t + s.delays[Len(s.delays)] ELSE 0,
     checks |-> chk, reports |-> rep, consulted |-> asked]

\* one iteration of the wrapper that the frame fr is in, from the return of
\* func on
wrapper_of(fr, x) ==
    IF fr.impl \in {"retry.retry_with_backoff", "rate_limited",
                    "retry(circuit_breaker)"}
    THEN retry_wrapper(retry_args, fr.retry, fr.delay, fr.last_exception,
                       fr.calls, fr.delays, x)
    ELSE utils_wrapper(retry_args, fr.retry, fr.delay, fr.last_exception,
                       fr.calls, fr.delays, x)

\* the wrapper that the frame fr is in, from its first line or from the
\* return of time.sleep to its invocation of func; a loop that has no
\* iteration left invokes nothing and the call ends
wrapper_enters(fr) ==
    LET s == wrapper_of(fr, "ok")
    IN  IF s.calls = fr.calls
        THEN s
        ELSE loop_invokes(fr.retry, fr.delay, fr.last_exception, fr.calls,
                          fr.delays)

\* the retry variables of a system that makes no retry-wrapped call
RetryUnused ==
    /\ max_retries = 0
    /\ initial_delay = 0
    /\ max_delay = 0
    /\ backoff_factor = 0
    /\ exceptions = "Exception"
    /\ calls = << >>
    /\ delays = << >>
    /\ outcome = no_outcome

\* the limiter variables of a system that has no RateLimiter
LimiterUnused ==
    /\ limits = << >>
    /\ tokens = << >>
    /\ last_update = << >>
    /\ admitted = << >>
    /\ thr = << >>

\* the breaker variables of a system that has no CircuitBreaker
BreakerUnused ==
    /\ failure_threshold = 0
    /\ recovery_timeout = 0
    /\ expected_exception = "Exception"
    /\ state = "none"
    /\ failure_count = 0
    /\ last_failure_time = 0
    /\ streak = 0
    /\ prev = [state |-> "none", failure_count |-> 0, last_failure_time |-> 0]

\* what a guarded call leaves behind before any has been made
no_call ==
    [checks |-> 0, consulted |-> 0, rejected_by |-> "none", msg |-> "none",
     reports |-> << >>]

\* the variables of the guarded call in a system that makes none
GateUnused ==
    /\ func = "none"
    /\ max_requests = 0
    /\ time_window = 0
    /\ requests = << >>
    /\ g = no_call

\* the float limiters of a system that has none
FloatUnused ==
    /\ bucket = << >>
    /\ reordered = << >>
    /\ unprobed = << >>

\* the clients of a system that constructs no XAPIClient
ClientsUnused == client = << >>

\* the tasks of a system that runs none
TasksUnused == task = << >>

\* the request logs of a system that compares none
LogsUnused ==
    /\ wall = << >>
    /\ logs = << >>

\* the cache of a system that constructs none
CacheUnused ==
    /\ max_size = 0
    /\ ttl = 0
    /\ cache = << >>
    /\ timestamps = << >>
    /\ arg = << >>
    /\ before = << >>
    /\ hist = << >>

\* the threads of a system in which no call waits
FramesUnused == frame = << >>

RestUnused == LogsUnused /\ CacheUnused /\ FramesUnused

OtherUnused == FloatUnused /\ ClientsUnused /\ TasksUnused /\ RestUnused

\* Two threads call a function wrapped by either decorator, once each (a
\* thread that has made its call is at "ended"); the decorator's arguments
\* are drawn here.
InitRetry ==
    /\ now = 0
    /\ op = "init"
    /\ ret = FALSE
    /\ LimiterUnused
    /\ BreakerUnused
    /\ GateUnused
    /\ FloatUnused
    /\ ClientsUnused
    /\ TasksUnused
    /\ LogsUnused
    /\ CacheUnused
    /\ max_retries \in 0..MaxRetries
    /\ initial_delay \in {1, 4}
    /\ max_delay \in {3, 60}
    /\ backoff_factor \in {2, 3}
    /\ exceptions \in {"Exception", "ConnectionError"}
    /\ calls = << >>
    /\ delays = << >>
    /\ outcome = no_outcome
    /\ frame = [th \in Threads |-> idle_frame]

\* The thread th, in the call of the frame fr, has run the wrapper at time t
\* up to s: the call has ended, or the thread is inside func or in
\* time.sleep, and the other thread runs in the meantime.
wrapper_runs(th, fr, s, t) ==
    /\ now' = t
    /\ IF s.pc = "done"
       THEN /\ op' = fr.impl
            /\ calls' = s.calls
            /\ delays' = s.delays
            /\ outcome' = s.outcome
            /\ frame' = [frame EXCEPT
                            ![th] = [idle_frame EXCEPT !.pc = "ended"]]
       ELSE /\ op' = IF s.pc = "sleep" THEN "time.sleep" ELSE "operation"
            /\ calls' = << >>
            /\ delays' = << >>
            /\ outcome' = no_outcome
            /\ frame' = [frame EXCEPT
                            ![th] = waiting_frame(fr, s, t, 0, << >>, 0)]
    /\ UNCHANGED <<ret, limiter_vars, breaker_vars, max_retries,
                   initial_delay, max_delay, backoff_factor, exceptions,
                   gate_vars, float_vars, client_vars, task, log_vars,
                   cache_vars>>

\* retry.retry_with_backoff(...)(func)() called by the thread th, up to the
\* invocation of func
retry_with_backoff(th) ==
    LET fr == new_frame("retry.retry_with_backoff")
    IN  /\ frame[th].pc = "idle"
        /\ wrapper_runs(th, fr, wrapper_enters(fr), now)

\* utils.retry_with_backoff(max_retries, initial_delay)(func)() called by
\* the thread th, up to the invocation of func
utils_retry_with_backoff(th) ==
    LET fr == new_frame("utils.retry_with_backoff")
    IN  /\ frame[th].pc = "idle"
        /\ wrapper_runs(th, fr, wrapper_enters(fr), now)

\* func returns or raises in the thread th, and the wrapper goes on to the
\* end of the call or to time.sleep
func_returns(th) ==
    /\ frame[th].pc = "operation"
    /\ \E x \in Outcomes :
           wrapper_runs(th, frame[th], wrapper_of(frame[th], x), now)

\* time.sleep(delay) returns in the thread th, no earlier than it was asked
\* to, and the loop invokes func again
sleep_returns(th) ==
    /\ frame[th].pc = "sleeping"
    /\ wrapper_runs(th, frame[th], wrapper_enters(frame[th]),
                    Max(now, frame[th].wake))

NextRetry ==
    \E th \in Threads :
        \/ retry_with_backoff(th)
        \/ utils_retry_with_backoff(th)
        \/ func_returns(th)
        \/ sleep_returns(th)

SpecRetry == InitRetry /\ [][NextRetry]_vars

\* the decorators applied with the default delays of retry.py
InitRetryFair ==
    /\ InitRetry
    /\ initial_delay = 1
    /\ max_delay = 60
    /\ backoff_factor = 2

\* func returns and time.sleep(delay) returns: a thread that waits in
\* either goes on in the end
SpecRetryFair ==
    /\ InitRetryFair
    /\ [][NextRetry]_vars
    /\ \A th \in Threads : /\ WF_vars(func_returns(th))
                           /\ WF_vars(sleep_returns(th))

\* ---------------------------------------------------------- CircuitBreaker
\* a threshold test that opens one failure late
failure_opens_late(count, threshold) == count > threshold

\* if self.failure_count >= self.failure_threshold
failure_opens(count, threshold) == count >= threshold

\* a cooldown test that excludes the boundary instant
cooldown_elapsed_strict(t, last, timeout) == t - last > timeout

\* if time.time() - self.last_failure_time >= self.recovery_timeout
cooldown_elapsed(t, last, timeout) == t - last >= timeout

\* the fields of a CircuitBreaker that its methods change
breaker_fields ==
    [state |-> state, failure_count |-> failure_count,
     last_failure_time |-> last_failure_time]

\* CircuitBreaker.__init__: CLOSED, no failure, last_failure_time = 0
new_breaker ==
    [state |-> "CLOSED", failure_count |-> 0, last_failure_time |-> 0]

\* a HALF_OPEN state that refuses every call after the trial call
half_open_once(b) == [ok |-> FALSE, b |-> b]

\* can_execute() in the HALF_OPEN state: return True, nothing assigned
half_open(b) == [ok |-> TRUE, b |-> b]

\* a can_execute() that clears the failure count when it lets the trial
\* call through
can_execute_resetting(b, t, timeout) ==
    IF b.state = "CLOSED"
    THEN [ok |-> TRUE, b |-> b]
    ELSE IF b.state = "OPEN"
    THEN IF t - b.last_failure_time >= timeout
         THEN [ok |-> TRUE,
               b |-> [b EXCEPT !.state = "HALF_OPEN", !.failure_count = 0]]
         ELSE [ok |-> FALSE, b |-> b]
    ELSE [ok |-> TRUE, b |-> b]

\* CircuitBreaker.can_execute() at time t: its result and the breaker after
can_execute_of(b, t, timeout) ==
    IF b.state = "CLOSED"
    THEN [ok |-> TRUE, b |-> b]
    ELSE IF b.state = "OPEN"
    THEN IF cooldown_elapsed(t, b.last_failure_time, timeout)
         THEN [ok |-> TRUE, b |-> [b EXCEPT !.state = "HALF_OPEN"]]
         ELSE [ok |-> FALSE, b |-> b]
    ELSE half_open(b)

\* a record_success() that also clears last_failure_time
record_success_clearing(b) ==
    [b EXCEPT !.state = "CLOSED", !.failure_count = 0,
              !.last_failure_time = 0]

\* CircuitBreaker.record_success()
record_success_of(b) ==
    [b EXCEPT !.state = "CLOSED", !.failure_count = 0]

\* a record_failure() that opens the breaker whatever the count
record_failure_opening(b, t, threshold) ==
    [b EXCEPT !.failure_count = @ + 1, !.last_failure_time = t,
              !.state = "OPEN"]

\* CircuitBreaker.record_failure() at time t
record_failure_of(b, t, threshold) ==
    [b EXCEPT !.failure_count = @ + 1,
              !.last_failure_time = t,
              !.state = IF failure_opens(b.failure_count + 1, threshold)
                        THEN "OPEN" ELSE @]

\* CircuitBreaker.__init__
InitBreaker ==
    /\ now = 0
    /\ op = "init"
    /\ ret = FALSE
    /\ LimiterUnused
    /\ RetryUnused
    /\ GateUnused
    /\ OtherUnused
    /\ failure_threshold \in {1, 2, 3}
    /\ recovery_timeout \in {2, 3}
    /\ expected_exception = "Exception"
    /\ state = new_breaker.state
    /\ failure_count = new_breaker.failure_count
    /\ last_failure_time = new_breaker.last_failure_time
    /\ streak = 0
    /\ prev = new_breaker

BreakerTick ==
    /\ now < MaxTime
    /\ now' = now + 1
    /\ op' = "tick"
    /\ UNCHANGED <<ret, limiter_vars, retry_vars, breaker_vars, gate_vars,
                   other_vars>>

\* CircuitBreaker.can_execute()
can_execute ==
    LET r == can_execute_of(breaker_fields, now, recovery_timeout)
    IN  /\ op' = "can_execute"
        /\ ret' = r.ok
        /\ state' = r.b.state
        /\ failure_count' = r.b.failure_count
        /\ last_failure_time' = r.b.last_failure_time
        /\ prev' = breaker_fields
        /\ UNCHANGED <<now, limiter_vars, retry_vars, failure_threshold,
                       recovery_timeout, expected_exception, streak,
                       gate_vars, other_vars>>

\* CircuitBreaker.record_success()
record_success ==
    LET b == record_success_of(breaker_fields)
    IN  /\ op' = "record_success"
        /\ state' = b.state
        /\ failure_count' = b.failure_count
        /\ last_failure_time' = b.last_failure_time
        /\ streak' = 0
        /\ prev' = breaker_fields
        /\ UNCHANGED <<now, ret, limiter_vars, retry_vars, failure_threshold,
                       recovery_timeout, expected_exception, gate_vars,
                       other_vars>>

\* CircuitBreaker.record_failure()
record_failure ==
    LET b == record_failure_of(breaker_fields, now, failure_threshold)
    IN  /\ failure_count < MaxFailures
        /\ op' = "record_failure"
        /\ state' = b.state
        /\ failure_count' = b.failure_count
        /\ last_failure_time' = b.last_failure_time
        /\ streak' = streak + 1
        /\ prev' = breaker_fields
        /\ UNCHANGED <<now, ret, limiter_vars, retry_vars, failure_threshold,
                       recovery_timeout, expected_exception, gate_vars,
                       other_vars>>

NextBreaker == BreakerTick \/ can_execute \/ record_success \/ record_failure

SpecBreaker == InitBreaker /\ [][NextBreaker]_vars

\* ------------------------------------------------------------ guarded calls
\* What the limiters' wrappers and the body of post_tweet compute, as
\* functions of what they read.  No wrapper holds a lock: the calls that
\* threads make through them are the steps of SpecThreads, one access to
\* the shared state at a time.

\* utils.rate_limit:  while requests and requests[0] < now - time_window:
\*                        requests.pop(0)
RECURSIVE prune_head(_, _)
prune_head(reqs, bound) ==
    IF reqs # << >> /\ Head(reqs) < bound
    THEN prune_head(Tail(reqs), bound)
    ELSE reqs

\* utils.rate_limit(max_requests, time_window): the wrapper up to its call
\* of func, at time t
utils_rate_limit_of(reqs, t, maxr, tw) ==
    LET pruned == prune_head(reqs, t - tw)
    IN  IF Len(pruned) >= maxr
        THEN [ok |-> FALSE, requests |-> pruned]
        ELSE [ok |-> TRUE, requests |-> Append(pruned, t)]

\* rate_limiter.RateLimiter.can_make_request() at time t
can_make_request_of(reqs, t, maxr, tw) ==
    LET kept == SelectSeq(reqs, LAMBDA req_time : t - req_time <= tw)
    IN  IF Len(kept) < maxr
        THEN [ok |-> TRUE, requests |-> Append(kept, t)]
        ELSE [ok |-> FALSE, requests |-> kept]

\* a post_tweet whose body lets the error of the API call out, so that the
\* wrapper sleeps and runs the body, acquire() included, a second time
post_tweet_retrying(fr, x) == wrapper_of(fr, x)

\* XAPIClient.post_tweet from the return of the operation, which ends as x
\* says: the body returns None for every Exception of the operation, so the
\* wrapper around it sees no Exception, runs the body once and never sleeps
post_tweet_returns(fr, x) ==
    IF isinstance(x, "Exception")
    THEN loop_ends(Append(fr.calls, x), fr.delays, returned_None)
    ELSE wrapper_of(fr, x)

\* the function of the frame fr from the return of the operation, which
\* ends as x says, to time.sleep or to the end of the call: search_tweets
\* re-raises what the operation raises
func_returns_of(fr, x) ==
    IF fr.impl = "post_tweet" THEN post_tweet_returns(fr, x)
    ELSE wrapper_of(fr, x)

\* except breaker.expected_exception, for an error of class cls
is_expected(cls) == isinstance(cls, expected_exception)

\* ------------------------------------------------- sequential token bucket
Init ==
    /\ now = 0
    /\ op = "init"
    /\ ret = FALSE
    /\ limits \in LimitConfigs
    /\ tokens = init_tokens(limits)
    /\ last_update = init_last_update(limits, now)
    /\ admitted = << >>
    /\ thr = [th \in Threads |-> idle_thread]
    /\ RetryUnused
    /\ BreakerUnused
    /\ GateUnused
    /\ OtherUnused

\* the clock advances between calls
Tick ==
    /\ now < MaxTime
    /\ now' = now + 1
    /\ op' = "tick"
    /\ UNCHANGED <<ret, limits, tokens, last_update, admitted, thr,
                   retry_vars, breaker_vars, gate_vars, other_vars>>

\* one call of RateLimiter.acquire()
acquire ==
    LET r == acquire_result(limits, tokens, last_update, now)
    IN  /\ tokens' = r.tokens
        /\ last_update' = r.last_update
        /\ ret' = r.ok
        /\ op' = "acquire"
        /\ admitted' = IF r.ok THEN Append(admitted, now) ELSE admitted
        /\ UNCHANGED <<now, limits, thr, retry_vars, breaker_vars, gate_vars,
                       other_vars>>

Next == Tick \/ acquire

Spec == Init /\ [][Next]_vars

\* ------------------------------------------------ token bucket, two threads
\* acquire() holds no lock, so the threads' reads and writes of tokens and
\* last_update interleave.  Each action below is one access to the shared
\* dicts by one thread.
InitConc ==
    /\ now = 0
    /\ op = "init"
    /\ ret = FALSE
    /\ limits \in LimitConfigs
    /\ tokens = init_tokens(limits)
    /\ last_update = init_last_update(limits, now)
    /\ admitted = << >>
    /\ thr = [th \in Threads |-> idle_thread]
    /\ RetryUnused
    /\ BreakerUnused
    /\ GateUnused
    /\ OtherUnused

ConcTick ==
    /\ now < MaxConcTime
    /\ now' = now + 1
    /\ UNCHANGED <<op, ret, limits, tokens, last_update, admitted, thr,
                   retry_vars, breaker_vars, gate_vars, other_vars>>

\* now = time.time()
t_call(th) ==
    /\ thr[th].pc = "idle"
    /\ thr[th].calls < MaxCalls
    /\ thr' = [thr EXCEPT ![th] = [@ EXCEPT !.pc = "time_passed", !.now = now,
                                             !.i = 1, !.calls = @ + 1]]
    /\ UNCHANGED <<now, op, ret, limits, tokens, last_update, admitted,
                   retry_vars, breaker_vars, gate_vars, other_vars>>

\* time_passed = now - self.last_update[window]
t_time_passed(th) ==
    /\ thr[th].pc = "time_passed"
    /\ thr' = [thr EXCEPT ![th] =
                 [@ EXCEPT !.pc = "refill_load",
                           !.time_passed =
                               thr[th].now - last_update[limits[thr[th].i].window]]]
    /\ UNCHANGED <<now, op, ret, limits, tokens, last_update, admitted,
                   retry_vars, breaker_vars, gate_vars, other_vars>>

\* the read of self.tokens[window] inside min(...)
t_refill_load(th) ==
    /\ thr[th].pc = "refill_load"
    /\ thr' = [thr EXCEPT ![th] =
                 [@ EXCEPT !.pc = "refill_store",
                           !.tmp = tokens[limits[thr[th].i].window]]]
    /\ UNCHANGED <<now, op, ret, limits, tokens, last_update, admitted,
                   retry_vars, breaker_vars, gate_vars, other_vars>>

\* self.tokens[window] = min(...)
t_refill_store(th) ==
    /\ thr[th].pc = "refill_store"
    /\ tokens' = [tokens EXCEPT ![limits[thr[th].i].window] =
                     refill(limits[thr[th].i], thr[th].tmp, thr[th].time_passed)]
    /\ thr' = [thr EXCEPT ![th].pc = "stamp"]
    /\ UNCHANGED <<now, op, ret, limits, last_update, admitted, retry_vars, breaker_vars,
                   gate_vars, other_vars>>

\* self.last_update[window] = now
t_stamp(th) ==
    /\ thr[th].pc = "stamp"
    /\ last_update' = [last_update EXCEPT ![limits[thr[th].i].window] = thr[th].now]
    /\ thr' = [thr EXCEPT ![th].pc = "check"]
    /\ UNCHANGED <<now, op, ret, limits, tokens, admitted, retry_vars, breaker_vars,
                   gate_vars, other_vars>>

\* if self.tokens[window] < 1: return False
t_check_fail(th) ==
    /\ thr[th].pc = "check"
    /\ tokens[limits[thr[th].i].window] < OneToken(limits[thr[th].i])
    /\ thr' = [thr EXCEPT ![th] = [@ EXCEPT !.pc = "idle", !.ok = FALSE]]
    /\ op' = "acquire"
    /\ ret' = FALSE
    /\ UNCHANGED <<now, limits, tokens, last_update, admitted, retry_vars, breaker_vars,
                   gate_vars, other_vars>>

\* the window holds a token: on to the next window, or to the second loop
t_check_pass(th) ==
    /\ thr[th].pc = "check"
    /\ tokens[limits[thr[th].i].window] >= OneToken(limits[thr[th].i])
    /\ thr' = [thr EXCEPT ![th] =
                 IF thr[th].i < Len(limits)
                 THEN [@ EXCEPT !.pc = "time_passed", !.i = @ + 1]
                 ELSE [@ EXCEPT !.pc = "deduct_load", !.i = 1]]
    /\ UNCHANGED <<now, op, ret, limits, tokens, last_update, admitted,
                   retry_vars, breaker_vars, gate_vars, other_vars>>

\* the read of self.tokens[window] in  self.tokens[window] -= 1
t_deduct_load(th) ==
    /\ thr[th].pc = "deduct_load"
    /\ thr' = [thr EXCEPT ![th] =
                 [@ EXCEPT !.pc = "deduct_store",
                           !.tmp = tokens[limits[thr[th].i].window]]]
    /\ UNCHANGED <<now, op, ret, limits, tokens, last_update, admitted,
                   retry_vars, breaker_vars, gate_vars, other_vars>>

\* the write of  self.tokens[window] -= 1 ; after the last window, return True
t_deduct_store(th) ==
    /\ thr[th].pc = "deduct_store"
    /\ tokens' = [tokens EXCEPT ![limits[thr[th].i].window] =
                     thr[th].tmp - OneToken(limits[thr[th].i])]
    /\ IF thr[th].i < Len(limits)
       THEN /\ thr' = [thr EXCEPT ![th] =
                         [@ EXCEPT !.pc = "deduct_load", !.i = @ + 1]]
            /\ UNCHANGED <<op, ret, admitted>>
       ELSE /\ thr' = [thr EXCEPT ![th] = [@ EXCEPT !.pc = "idle",
                                                     !.ok = TRUE]]
            /\ op' = "acquire"
            /\ ret' = TRUE
            /\ admitted' = Append(admitted, thr[th].now)
    /\ UNCHANGED <<now, limits, last_update, retry_vars, breaker_vars, gate_vars,
                   other_vars>>

NextConc ==
    \/ ConcTick
    \/ \E th \in Threads :
          \/ t_call(th)
          \/ t_time_passed(th)
          \/ t_refill_load(th)
          \/ t_refill_store(th)
          \/ t_stamp(th)
          \/ t_check_fail(th)
          \/ t_check_pass(th)
          \/ t_deduct_load(th)
          \/ t_deduct_store(th)

SpecConc == InitConc /\ [][NextConc]_vars

\* ------------------------------------------- circuit breaker, two tasks
\* Two tasks call a function decorated with circuit_breaker at the same
\* time.  CircuitBreaker holds no lock: a task can be suspended between any
\* two reads or writes of self.state, self.failure_count and
\* self.last_failure_time.
Tasks == {"t1", "t2"}

\* a task outside the wrapper: tmp is the failure_count it has read, calls
\* the number of calls it has made
idle_task == [pc |-> "idle", tmp |-> 0, calls |-> 0]

\* how a call of the wrapped function ends
TaskOutcomes == {"ok", "ConnectionError", "KeyboardInterrupt"}

InitOverlap ==
    /\ now = 0
    /\ op = "init"
    /\ ret = FALSE
    /\ LimiterUnused
    /\ RetryUnused
    /\ GateUnused
    /\ FloatUnused
    /\ ClientsUnused
    /\ RestUnused
    /\ failure_threshold \in {1, 2}
    /\ recovery_timeout = 2
    /\ expected_exception = "Exception"
    /\ state = new_breaker.state
    /\ failure_count = new_breaker.failure_count
    /\ last_failure_time = new_breaker.last_failure_time
    /\ streak = 0
    /\ prev = new_breaker
    /\ task = [t \in Tasks |-> idle_task]

\* the clock advances while the tasks run
OverlapTick ==
    /\ now < MaxOverlapTime
    /\ now' = now + 1
    /\ UNCHANGED <<op, ret, limiter_vars, retry_vars, breaker_vars,
                   gate_vars, other_vars>>

\* wrapper(): if not breaker.can_execute()
b_call(t) ==
    /\ task[t].pc = "idle"
    /\ task[t].calls < MaxTaskCalls
    /\ task' = [task EXCEPT ![t] = [@ EXCEPT !.pc = "can_execute_32",
                                             !.calls = @ + 1]]
    /\ UNCHANGED <<now, op, ret, limiter_vars, retry_vars, breaker_vars,
                   gate_vars, float_vars, client_vars, rest_vars>>

\* if self.state == CircuitState.CLOSED: return True
b_closed(t) ==
    /\ task[t].pc = "can_execute_32"
    /\ task' = [task EXCEPT ![t].pc = IF state = "CLOSED" THEN "func"
                                      ELSE "can_execute_35"]
    /\ UNCHANGED <<now, op, ret, limiter_vars, retry_vars, breaker_vars,
                   gate_vars, float_vars, client_vars, rest_vars>>

\* if self.state == CircuitState.OPEN: ... ; otherwise return True
b_open(t) ==
    /\ task[t].pc = "can_execute_35"
    /\ task' = [task EXCEPT ![t].pc = IF state = "OPEN" THEN "can_execute_36"
                                      ELSE "func"]
    /\ UNCHANGED <<now, op, ret, limiter_vars, retry_vars, breaker_vars,
                   gate_vars, float_vars, client_vars, rest_vars>>

\* the call of time.time() in
\* if time.time() - self.last_failure_time >= self.recovery_timeout
b_cooldown_clock(t) ==
    /\ task[t].pc = "can_execute_36"
    /\ task' = [task EXCEPT ![t] = [@ EXCEPT !.pc = "can_execute_36_compare",
                                             !.tmp = now]]
    /\ UNCHANGED <<now, op, ret, limiter_vars, retry_vars, breaker_vars,
                   gate_vars, float_vars, client_vars, rest_vars>>

\* a can_execute() that restarts the cooldown when it returns False
b_cooldown_stamping(t) ==
    /\ task[t].pc = "can_execute_36_compare"
    /\ IF cooldown_elapsed(task[t].tmp, last_failure_time, recovery_timeout)
       THEN /\ task' = [task EXCEPT ![t].pc = "can_execute_37"]
            /\ UNCHANGED <<op, ret, last_failure_time>>
       ELSE /\ task' = [task EXCEPT ![t].pc = "idle"]
            /\ last_failure_time' = task[t].tmp
            /\ op' = "rejected"
            /\ ret' = FALSE
    /\ UNCHANGED <<now, limiter_vars, retry_vars, failure_threshold,
                   recovery_timeout, expected_exception, state,
                   failure_count, streak, prev, gate_vars, float_vars,
                   client_vars, rest_vars>>

\* the read of self.last_failure_time and the comparison, with the time
\* read before; otherwise return False, and the wrapper raises
b_cooldown(t) ==
    /\ task[t].pc = "can_execute_36_compare"
    /\ IF cooldown_elapsed(task[t].tmp, last_failure_time, recovery_timeout)
       THEN /\ task' = [task EXCEPT ![t].pc = "can_execute_37"]
            /\ UNCHANGED <<op, ret>>
       ELSE /\ task' = [task EXCEPT ![t].pc = "idle"]
            /\ op' = "rejected"
            /\ ret' = FALSE
    /\ UNCHANGED <<now, limiter_vars, retry_vars, breaker_vars, gate_vars,
                   float_vars, client_vars, rest_vars>>

\* self.state = CircuitState.HALF_OPEN; return True
b_half_open(t) ==
    /\ task[t].pc = "can_execute_37"
    /\ state' = "HALF_OPEN"
    /\ task' = [task EXCEPT ![t].pc = "func"]
    /\ UNCHANGED <<now, op, ret, limiter_vars, retry_vars,
                   failure_threshold, recovery_timeout, expected_exception,
                   failure_count, last_failure_time, streak, prev,
                   gate_vars, float_vars, client_vars, rest_vars>>

\* result = func(*args, **kwargs): it returns, raises an expected error, or
\* raises an error that passes through the wrapper
b_func(t) ==
    /\ task[t].pc = "func"
    /\ \E x \in TaskOutcomes :
           IF x = "ok"
           THEN /\ task' = [task EXCEPT ![t].pc = "record_success_45"]
                /\ UNCHANGED <<op, ret>>
           ELSE IF is_expected(x)
           THEN /\ task' = [task EXCEPT ![t].pc = "record_failure_51"]
                /\ UNCHANGED <<op, ret>>
           ELSE /\ task' = [task EXCEPT ![t].pc = "idle"]
                /\ op' = "raised"
                /\ ret' = FALSE
    /\ UNCHANGED <<now, limiter_vars, retry_vars, breaker_vars, gate_vars,
                   float_vars, client_vars, rest_vars>>

\* record_success: self.state = CircuitState.CLOSED
b_success_state(t) ==
    /\ task[t].pc = "record_success_45"
    /\ state' = "CLOSED"
    /\ task' = [task EXCEPT ![t].pc = "record_success_46"]
    /\ UNCHANGED <<now, op, ret, limiter_vars, retry_vars,
                   failure_threshold, recovery_timeout, expected_exception,
                   failure_count, last_failure_time, streak, prev,
                   gate_vars, float_vars, client_vars, rest_vars>>

\* record_success: self.failure_count = 0; the wrapper returns result
b_success_count(t) ==
    /\ task[t].pc = "record_success_46"
    /\ failure_count' = 0
    /\ task' = [task EXCEPT ![t].pc = "idle"]
    /\ op' = "record_success"
    /\ ret' = TRUE
    /\ UNCHANGED <<now, limiter_vars, retry_vars, failure_threshold,
                   recovery_timeout, expected_exception, state,
                   last_failure_time, streak, prev, gate_vars, float_vars,
                   client_vars, rest_vars>>

\* record_failure: the read of self.failure_count in  self.failure_count += 1
b_failure_load(t) ==
    /\ task[t].pc = "record_failure_51"
    /\ task' = [task EXCEPT ![t] = [@ EXCEPT !.pc = "record_failure_51_store",
                                             !.tmp = failure_count]]
    /\ UNCHANGED <<now, op, ret, limiter_vars, retry_vars, breaker_vars,
                   gate_vars, float_vars, client_vars, rest_vars>>

\* record_failure: the write of  self.failure_count += 1
b_failure_store(t) ==
    /\ task[t].pc = "record_failure_51_store"
    /\ failure_count' = task[t].tmp + 1
    /\ task' = [task EXCEPT ![t].pc = "record_failure_52"]
    /\ UNCHANGED <<now, op, ret, limiter_vars, retry_vars,
                   failure_threshold, recovery_timeout, expected_exception,
                   state, last_failure_time, streak, prev, gate_vars,
                   float_vars, client_vars, rest_vars>>

\* record_failure: the call of time.time() in
\* self.last_failure_time = time.time()
b_failure_clock(t) ==
    /\ task[t].pc = "record_failure_52"
    /\ task' = [task EXCEPT ![t] = [@ EXCEPT !.pc = "record_failure_52_store",
                                             !.tmp = now]]
    /\ UNCHANGED <<now, op, ret, limiter_vars, retry_vars, breaker_vars,
                   gate_vars, float_vars, client_vars, rest_vars>>

\* record_failure: the write of self.last_failure_time, with the time read
\* before
b_failure_time(t) ==
    /\ task[t].pc = "record_failure_52_store"
    /\ last_failure_time' = task[t].tmp
    /\ task' = [task EXCEPT ![t].pc = "record_failure_54"]
    /\ UNCHANGED <<now, op, ret, limiter_vars, retry_vars,
                   failure_threshold, recovery_timeout, expected_exception,
                   state, failure_count, streak, prev, gate_vars,
                   float_vars, client_vars, rest_vars>>

\* record_failure: if self.failure_count >= self.failure_threshold;
\* otherwise the method is over and the wrapper re-raises
b_failure_test(t) ==
    /\ task[t].pc = "record_failure_54"
    /\ IF failure_opens(failure_count, failure_threshold)
       THEN /\ task' = [task EXCEPT ![t].pc = "record_failure_55"]
            /\ UNCHANGED <<op, ret>>
       ELSE /\ task' = [task EXCEPT ![t].pc = "idle"]
            /\ op' = "record_failure"
            /\ ret' = FALSE
    /\ UNCHANGED <<now, limiter_vars, retry_vars, breaker_vars, gate_vars,
                   float_vars, client_vars, rest_vars>>

\* record_failure: self.state = CircuitState.OPEN; the wrapper re-raises
b_failure_open(t) ==
    /\ task[t].pc = "record_failure_55"
    /\ state' = "OPEN"
    /\ task' = [task EXCEPT ![t].pc = "idle"]
    /\ op' = "record_failure"
    /\ ret' = FALSE
    /\ UNCHANGED <<now, limiter_vars, retry_vars, failure_threshold,
                   recovery_timeout, expected_exception, failure_count,
                   last_failure_time, streak, prev, gate_vars, float_vars,
                   client_vars, rest_vars>>

NextOverlap ==
    \/ OverlapTick
    \/ \E t \in Tasks :
          \/ b_call(t)
          \/ b_closed(t)
          \/ b_open(t)
          \/ b_cooldown_clock(t)
          \/ b_cooldown(t)
          \/ b_half_open(t)
          \/ b_func(t)
          \/ b_success_state(t)
          \/ b_success_count(t)
          \/ b_failure_load(t)
          \/ b_failure_store(t)
          \/ b_failure_clock(t)
          \/ b_failure_time(t)
          \/ b_failure_test(t)
          \/ b_failure_open(t)

SpecOverlap == InitOverlap /\ [][NextOverlap]_vars

\* ----------------------------------- calls suspended between two accesses
\* No decorator of the repository holds a lock, so a thread can be suspended
\* between any two of its accesses to the breaker, to a request log, to the
\* token bucket and to the clock.  Two threads make one call each.  An
\* action below is one such access by one thread, with the local steps that
\* follow it up to the next access; a thread inside the operation or inside
\* time.sleep waits.  task[th] is the thread's place in circuit_breaker's
\* wrapper (the steps b_... above), thr[th] its place in acquire() (the
\* steps t_... above), frame[th] its place in func, with the locals of the
\* rate_limit and retry wrappers: the time t it read, the list kept that
\* line 19 of rate_limiter.py built, the assignments of self.requests it had
\* seen when it read self.requests for the append, the invocations of the
\* operation it made, whether the limiter denied it and what func gave.

\* the function is called through circuit_breaker's wrapper
guarded == state # "none"

\* the frame of a thread that has made no call
thread_frame ==
    idle_frame @@ [t |-> 0, kept |-> << >>, seen |-> {}, invoked |-> 0,
                   denied |-> FALSE, x |-> no_outcome]

\* the frame of a thread whose call through impl is over
ended_frame(impl) == [thread_frame EXCEPT !.pc = "ended", !.impl = impl]

\* the stacking a call of func goes through: the rate-limited functions are
\* behind the breaker, if there is one; the bare operation is behind the
\* breaker's wrapper, which is behind a retry wrapper that makes two
\* attempts, retry.retry_with_backoff(max_retries=1) or
\* utils.retry_with_backoff(max_retries=2)
Stackings ==
    IF func # "operation" THEN {func}
    ELSE IF max_retries = 1 THEN {"retry(circuit_breaker)"}
    ELSE {"utils.retry(circuit_breaker)"}

\* the retry wrapper of the frame fr is outside the breaker's wrapper
retry_outside(fr) ==
    fr.impl \in {"retry(circuit_breaker)", "utils.retry(circuit_breaker)"}

\* what no step of a call assigns
calls_fixed ==
    UNCHANGED <<limits, tokens, last_update, max_retries, initial_delay,
                max_delay, backoff_factor, exceptions, breaker_vars, func,
                max_requests, time_window, float_vars, client_vars,
                log_vars, cache_vars>>

\* the thread th goes on with the frame fr, at pc in the breaker's wrapper
goes_on(th, fr, pc) ==
    /\ frame' = [frame EXCEPT ![th] = fr]
    /\ task' = [task EXCEPT ![th].pc = pc]
    /\ UNCHANGED <<op, ret, calls, delays, outcome, g>>

\* what a call of this section leaves behind before any has ended
no_thread_call == no_call @@ [invoked |-> 0]

\* the call of the thread th ends and gives its caller o; by tells who
\* turned the call away, msg the text of that error
call_ends(th, fr, o, by, msg) ==
    /\ frame' = [frame EXCEPT ![th] = ended_frame(fr.impl)]
    /\ task' = [task EXCEPT ![th].pc = "idle"]
    /\ op' = "call"
    /\ calls' = fr.calls
    /\ delays' = fr.delays
    /\ outcome' = o
    /\ g' = [checks |-> fr.checks, consulted |-> fr.consulted,
             rejected_by |-> by, msg |-> msg, reports |-> fr.reports,
             invoked |-> fr.invoked]
    /\ UNCHANGED ret

\* the frame fr with the locals of the retry wrapper's loop at s
loop_frame(fr, s) ==
    [fr EXCEPT !.retry = s.retry, !.delay = s.delay,
               !.last_exception = s.last_exception, !.calls = s.calls,
               !.delays = s.delays, !.x = no_outcome]

\* the frame fr of a thread that enters time.sleep at time t
sleeping_frame(fr, t) ==
    [fr EXCEPT !.pc = "sleeping", !.wake = t + fr.delays[Len(fr.delays)]]

\* the breaker's wrapper inside a retry wrapper has ended as x says, "ok" or
\* the class of its error: the retry wrapper sleeps or the call ends
attempt_ends(th, fr, x, by, msg) ==
    LET s == wrapper_of(fr, x)
    IN  IF s.pc = "sleep"
        THEN goes_on(th, sleeping_frame(loop_frame(fr, s), now), "idle")
        ELSE call_ends(th, loop_frame(fr, s), s.outcome, by, msg)

\* what the breaker's wrapper gave, o, goes to its caller: to the retry
\* wrapper around it or to the caller of the whole
passes_out(th, fr, o, by, msg) ==
    IF retry_outside(fr)
    THEN attempt_ends(th, fr, IF o.kind = "return" THEN "ok" ELSE o.cls,
                      by, msg)
    ELSE call_ends(th, fr, o, by, msg)

\* func has ended in the thread th and gives o.  Without a breaker that is
\* the end of the call.  circuit_breaker's wrapper goes to record_success()
\* when func returned (line 77), to record_failure() when it raised an
\* expected error (line 80); any other error passes through it.
func_ends(th, fr, o) ==
    LET by  == IF fr.denied THEN "limiter" ELSE "none"
        msg == IF fr.denied /\ o.kind = "raise"
               THEN "Rate limit exceeded" ELSE "none"
    IN  IF ~guarded
        THEN call_ends(th, fr, o, by, msg)
        ELSE IF o.kind = "return"
        THEN goes_on(th, [fr EXCEPT !.pc = "reporting", !.x = o,
                                    !.reports = Append(@, "record_success")],
                     "record_success_45")
        ELSE IF is_expected(o.cls)
        THEN goes_on(th, [fr EXCEPT !.pc = "reporting", !.x = o,
                                    !.reports = Append(@, "record_failure")],
                     "record_failure_51")
        ELSE passes_out(th, fr, o, by, msg)

\* the retry wrapper inside the rate limiter, from its first line or from
\* the return of time.sleep to the operation; a loop that has no iteration
\* left invokes nothing and func ends
loop_enters(th, fr) ==
    LET w == wrapper_enters(fr)
    IN  IF w.pc = "done"
        THEN func_ends(th, loop_frame(fr, w), w.outcome)
        ELSE goes_on(th, [fr EXCEPT !.pc = "operation", !.invoked = @ + 1],
                     "func")

\* the retry wrapper outside the breaker's wrapper, from its first line or
\* from the return of time.sleep to can_execute()
attempt_begins(th, fr) ==
    LET w == wrapper_enters(fr)
    IN  IF w.pc = "done"
        THEN call_ends(th, loop_frame(fr, w), w.outcome, "none", "none")
        ELSE goes_on(th, [fr EXCEPT !.pc = "called", !.checks = @ + 1],
                     "can_execute_32")

\* client = XAPIClient(): the threads call through one instance, or each
\* through an instance built for it.  The decorators of search_tweets run
\* once, when the class body is executed (x_api_client.py lines 66 and 67),
\* so the requests list belongs to the method and the wrapper never looks
\* at self; self.rate_limiter, which post_tweet asks, is built by __init__
\* for each instance (lines 24 to 28), and post_tweet is called through
\* one instance here.
one_client == [th \in Threads |-> "client"]

own_clients == [th \in Threads |-> th]

InitThreads ==
    /\ now = 0
    /\ op = "init"
    /\ ret = FALSE
    /\ func \in {"search_tweets", "rate_limited", "post_tweet", "operation"}
    /\ limits = IF func = "post_tweet" THEN TwoWindows ELSE << >>
    /\ tokens = IF func = "post_tweet" THEN init_tokens(limits) ELSE << >>
    /\ last_update = IF func = "post_tweet"
                     THEN init_last_update(limits, now) ELSE << >>
    /\ thr = [th \in Threads |-> idle_thread]
    /\ max_requests \in IF func \in {"search_tweets", "rate_limited"}
                        THEN {1, 2} ELSE {0}
    /\ time_window = IF func \in {"search_tweets", "rate_limited"}
                     THEN 1 ELSE 0
    /\ requests \in IF func \in {"search_tweets", "rate_limited"}
                    THEN {<< >>, <<0>>} ELSE {<< >>}
    /\ admitted = requests
    /\ max_retries \in IF func = "rate_limited" THEN {1}
                       ELSE IF func = "operation" THEN {1, 2}
                       ELSE {2}
    /\ initial_delay = 1
    /\ max_delay = 60
    /\ backoff_factor = 2
    /\ exceptions = "Exception"
    /\ calls = << >>
    /\ delays = << >>
    /\ outcome = no_outcome
    /\ state \in IF func \in {"post_tweet", "operation"} THEN {"CLOSED"}
                 ELSE IF func = "search_tweets" /\ max_requests = 1
                                                /\ requests = << >>
                 THEN {"none", "CLOSED"}
                 ELSE {"none"}
    /\ failure_threshold = IF guarded THEN 1 ELSE 0
    /\ recovery_timeout = IF guarded THEN 2 ELSE 0
    /\ expected_exception \in
           IF ~guarded THEN {"Exception"}
           ELSE IF func = "post_tweet" THEN {"BaseException"}
           ELSE IF func = "operation" THEN {"Exception"}
           ELSE {"Exception", "ConnectionError", "ValueError"}
    /\ failure_count = 0
    /\ last_failure_time = 0
    /\ streak = 0
    /\ prev = IF guarded THEN new_breaker
              ELSE [state |-> "none", failure_count |-> 0,
                    last_failure_time |-> 0]
    /\ g = no_thread_call
    /\ FloatUnused
    /\ client \in IF func = "search_tweets" /\ ~guarded /\ requests = << >>
                   THEN {one_client, own_clients}
                   ELSE {one_client}
    /\ LogsUnused
    /\ CacheUnused
    /\ task = [th \in Threads |-> idle_task]
    /\ frame = [th \in Threads |-> thread_frame]

\* the clock advances
ThreadsTick ==
    /\ now < MaxThreadTime
    /\ now' = now + 1
    /\ UNCHANGED <<op, ret, limiter_vars, retry_vars, breaker_vars,
                   gate_vars, other_vars>>

\* the thread th calls the function: the breaker's wrapper (line 69), or
\* the retry wrapper around it, or the function itself
thread_call(th) ==
    /\ frame[th].pc = "idle"
    /\ \E impl \in Stackings :
           LET fr == [thread_frame EXCEPT !.pc = "called", !.impl = impl,
                                          !.delay = initial_delay]
           IN  IF retry_outside(fr) THEN attempt_begins(th, fr)
               ELSE goes_on(th, [fr EXCEPT !.checks = IF guarded THEN 1
                                                      ELSE 0],
                            IF guarded THEN "can_execute_32" ELSE "func")
    /\ UNCHANGED <<now, requests, admitted, thr>>
    /\ calls_fixed

\* a wrapper that calls func although can_execute() has returned False
call_rejected_late(th) ==
    /\ guarded
    /\ task[th].pc = "idle"
    /\ frame[th].pc = "called"
    /\ goes_on(th, frame[th], "func")
    /\ UNCHANGED <<now, requests, admitted, thr>>
    /\ calls_fixed

\* can_execute() has returned False: the wrapper reads breaker.state for the
\* text of the error and raises (lines 70 to 73)
call_rejected(th) ==
    /\ guarded
    /\ task[th].pc = "idle"
    /\ frame[th].pc = "called"
    /\ passes_out(th, frame[th], raised("Exception", 0), "breaker", state)
    /\ UNCHANGED <<now, requests, admitted, thr>>
    /\ calls_fixed

\* result = func(*args, **kwargs), up to the first access that func makes:
\* now = time.time() of utils.rate_limit (line 70), current_time =
\* time.time() of can_make_request (line 17), now = time.time() of acquire
\* (line 42) at the first iteration of post_tweet's retry wrapper; the bare
\* operation is invoked
func_begins(th) ==
    LET fr == frame[th]
    IN  /\ fr.pc = "called"
        /\ task[th].pc = "func"
        /\ IF func = "operation"
           THEN /\ goes_on(th, [fr EXCEPT !.pc = "operation",
                                          !.invoked = @ + 1], "func")
                /\ UNCHANGED thr
           ELSE IF func = "post_tweet"
           THEN IF wrapper_enters(fr).pc = "done"
                THEN /\ func_ends(th, fr, wrapper_enters(fr).outcome)
                     /\ UNCHANGED thr
                ELSE /\ goes_on(th, [fr EXCEPT !.pc = "acquire",
                                               !.consulted = @ + 1], "func")
                     /\ thr' = [thr EXCEPT ![th] =
                                   [idle_thread EXCEPT !.pc = "time_passed",
                                                       !.now = now, !.i = 1]]
           ELSE /\ goes_on(th, [fr EXCEPT
                                  !.pc = IF func = "search_tweets"
                                         THEN "rate_limit_73"
                                         ELSE "can_make_request_19",
                                  !.t = now, !.consulted = @ + 1], "func")
                /\ UNCHANGED thr
        /\ UNCHANGED <<now, requests, admitted>>
        /\ calls_fixed

\* utils.rate_limit:  while requests ...: the test of the list
rate_limit_nonempty(th) ==
    /\ frame[th].pc = "rate_limit_73"
    /\ goes_on(th, [frame[th] EXCEPT !.pc = IF requests = << >>
                                            THEN "rate_limit_77"
                                            ELSE "rate_limit_73_head"],
               "func")
    /\ UNCHANGED <<now, requests, admitted, thr>>
    /\ calls_fixed

\* utils.rate_limit:  ... and requests[0] < now - time_window, with the now
\* of line 70; on a list that is empty by then the subscript raises
\* IndexError
rate_limit_head(th) ==
    LET fr == frame[th]
    IN  /\ fr.pc = "rate_limit_73_head"
        /\ IF requests = << >>
           THEN func_ends(th, fr, raised("IndexError", 0))
           ELSE goes_on(th, [fr EXCEPT
                               !.pc = IF requests[1] < fr.t - time_window
                                      THEN "rate_limit_74"
                                      ELSE "rate_limit_77"], "func")
        /\ UNCHANGED <<now, requests, admitted, thr>>
        /\ calls_fixed

\* utils.rate_limit:  requests.pop(0), which removes what is first by then;
\* on a list that is empty by then it raises IndexError
rate_limit_pop(th) ==
    LET fr == frame[th]
    IN  /\ fr.pc = "rate_limit_74"
        /\ IF requests = << >>
           THEN /\ func_ends(th, fr, raised("IndexError", 0))
                /\ UNCHANGED requests
           ELSE /\ goes_on(th, [fr EXCEPT !.pc = "rate_limit_73"], "func")
                /\ requests' = Tail(requests)
        /\ UNCHANGED <<now, admitted, thr>>
        /\ calls_fixed

\* utils.rate_limit:  if len(requests) >= max_requests: raise Exception
rate_limit_len(th) ==
    LET fr == frame[th]
    IN  /\ fr.pc = "rate_limit_77"
        /\ IF Len(requests) >= max_requests
           THEN func_ends(th, [fr EXCEPT !.denied = TRUE],
                          raised("Exception", 0))
           ELSE goes_on(th, [fr EXCEPT !.pc = "rate_limit_81"], "func")
        /\ UNCHANGED <<now, requests, admitted, thr>>
        /\ calls_fixed

\* utils.rate_limit:  requests.append(now); return func(*args, **kwargs),
\* func being the retry wrapper, up to the operation
rate_limit_append(th) ==
    LET fr == frame[th]
    IN  /\ fr.pc = "rate_limit_81"
        /\ requests' = Append(requests, fr.t)
        /\ admitted' = Append(admitted, fr.t)
        /\ loop_enters(th, fr)
        /\ UNCHANGED <<now, thr>>
        /\ calls_fixed

\* The list that self.requests names is a new one after every assignment of
\* line 19, and a call makes one assignment: the threads that have made
\* theirs tell which list it is.
Stored ==
    {th \in Threads :
        /\ frame[th].impl = "rate_limited"
        /\ frame[th].pc \notin {"called", "can_make_request_19",
                                "can_make_request_19_store"}}

\* can_make_request: the list comprehension of lines 19 and 20 reads
\* self.requests and builds the list of the timestamps it keeps
can_make_request_filter(th) ==
    LET fr == frame[th]
    IN  /\ fr.pc = "can_make_request_19"
        /\ goes_on(th, [fr EXCEPT
                          !.pc = "can_make_request_19_store",
                          !.kept = SelectSeq(requests, LAMBDA req_time :
                                       fr.t - req_time <= time_window)],
                   "func")
        /\ UNCHANGED <<now, requests, admitted, thr>>
        /\ calls_fixed

\* can_make_request: the assignment  self.requests = [...]
can_make_request_store(th) ==
    LET fr == frame[th]
    IN  /\ fr.pc = "can_make_request_19_store"
        /\ requests' = fr.kept
        /\ goes_on(th, [fr EXCEPT !.pc = "can_make_request_23",
                                  !.kept = << >>], "func")
        /\ UNCHANGED <<now, admitted, thr>>
        /\ calls_fixed

\* can_make_request: if len(self.requests) < self.max_requests; otherwise
\* return False, and the wrapper returns None (lines 34 to 36)
can_make_request_len(th) ==
    LET fr == frame[th]
    IN  /\ fr.pc = "can_make_request_23"
        /\ IF Len(requests) < max_requests
           THEN goes_on(th, [fr EXCEPT !.pc = "can_make_request_24"], "func")
           ELSE func_ends(th, [fr EXCEPT !.denied = TRUE], returned_None)
        /\ UNCHANGED <<now, requests, admitted, thr>>
        /\ calls_fixed

\* can_make_request: the read of self.requests in
\* self.requests.append(current_time)
can_make_request_load(th) ==
    /\ frame[th].pc = "can_make_request_24"
    /\ goes_on(th, [frame[th] EXCEPT !.pc = "can_make_request_24_append",
                                     !.seen = Stored], "func")
    /\ UNCHANGED <<now, requests, admitted, thr>>
    /\ calls_fixed

\* can_make_request: the append to the list read before, which is lost when
\* self.requests names another list by now; return True, and the wrapper
\* calls func, the retry wrapper, up to the operation
can_make_request_append(th) ==
    LET fr == frame[th]
    IN  /\ fr.pc = "can_make_request_24_append"
        /\ requests' = IF fr.seen = Stored THEN Append(requests, fr.t)
                       ELSE requests
        /\ admitted' = Append(admitted, fr.t)
        /\ loop_enters(th, [fr EXCEPT !.seen = {}])
        /\ UNCHANGED <<now, thr>>
        /\ calls_fixed

\* post_tweet: acquire() has returned; on False the body returns None
\* (lines 33 to 35), on True it calls the API
acquire_returns(th) ==
    LET fr == frame[th]
    IN  /\ fr.pc = "acquire"
        /\ thr[th].pc = "idle"
        /\ IF thr[th].ok
           THEN goes_on(th, [fr EXCEPT !.pc = "operation",
                                       !.invoked = @ + 1], "func")
           ELSE func_ends(th, [fr EXCEPT !.denied = TRUE], returned_None)
        /\ thr' = [thr EXCEPT ![th] = idle_thread]
        /\ UNCHANGED <<now, requests, admitted>>
        /\ calls_fixed

\* the operation returns or raises in the thread th: behind the breaker's
\* wrapper alone that is the end of func; inside a retry wrapper the loop
\* goes on to time.sleep or func ends
operation_ends(th) ==
    \E x \in TaskOutcomes :
        LET fr == frame[th]
            s  == func_returns_of(fr, x)
        IN  /\ fr.pc = "operation"
            /\ IF retry_outside(fr)
               THEN func_ends(th, fr, IF x = "ok" THEN returned(1)
                                      ELSE raised(x, 1))
               ELSE IF s.pc = "sleep"
               THEN goes_on(th, sleeping_frame(loop_frame(fr, s), now),
                            "func")
               ELSE func_ends(th, loop_frame(fr, s), s.outcome)
            /\ UNCHANGED <<now, requests, admitted, thr>>
            /\ calls_fixed

\* time.sleep(delay) returns in the thread th: the loop of the retry wrapper
\* goes on to the operation, or to can_execute() when the breaker's wrapper
\* is inside it
sleep_ends(th) ==
    LET fr == [frame[th] EXCEPT !.wake = 0]
    IN  /\ frame[th].pc = "sleeping"
        /\ now' = Max(now, frame[th].wake)
        /\ IF retry_outside(fr) THEN attempt_begins(th, fr)
           ELSE loop_enters(th, fr)
        /\ UNCHANGED <<requests, admitted, thr>>
        /\ calls_fixed

\* record_success() or record_failure() has returned: the wrapper returns
\* result (line 78) or raises again (line 81)
call_returns(th) ==
    LET fr == frame[th]
    IN  /\ fr.pc = "reporting"
        /\ task[th].pc = "idle"
        /\ passes_out(th, [fr EXCEPT !.x = no_outcome], fr.x,
                      IF fr.denied THEN "limiter" ELSE "none",
                      IF fr.denied /\ fr.x.kind = "raise"
                      THEN "Rate limit exceeded" ELSE "none")
        /\ UNCHANGED <<now, requests, admitted, thr>>
        /\ calls_fixed

NextThreads ==
    \/ ThreadsTick
    \/ \E th \in Threads :
          \/ thread_call(th)
          \/ b_closed(th)
          \/ b_open(th)
          \/ b_cooldown_clock(th)
          \/ b_cooldown(th)
          \/ b_half_open(th)
          \/ call_rejected(th)
          \/ func_begins(th)
          \/ rate_limit_nonempty(th)
          \/ rate_limit_head(th)
          \/ rate_limit_pop(th)
          \/ rate_limit_len(th)
          \/ rate_limit_append(th)
          \/ can_make_request_filter(th)
          \/ can_make_request_store(th)
          \/ can_make_request_len(th)
          \/ can_make_request_load(th)
          \/ can_make_request_append(th)
          \/ t_time_passed(th)
          \/ t_refill_load(th)
          \/ t_refill_store(th)
          \/ t_stamp(th)
          \/ t_check_fail(th)
          \/ t_check_pass(th)
          \/ t_deduct_load(th)
          \/ t_deduct_store(th)
          \/ acquire_returns(th)
          \/ operation_ends(th)
          \/ sleep_ends(th)
          \/ b_success_state(th)
          \/ b_success_count(th)
          \/ b_failure_load(th)
          \/ b_failure_store(th)
          \/ b_failure_clock(th)
          \/ b_failure_time(th)
          \/ b_failure_test(th)
          \/ b_failure_open(th)
          \/ call_returns(th)

SpecThreads == InitThreads /\ [][NextThreads]_vars

\* ------------------------------------------------ the two sliding logs
\* utils.rate_limit and rate_limiter.RateLimiter with equal arguments,
\* called at the same instants.  The instants are floats, as time.time()
\* returns them: seconds since 1970, now between 2^30 and 2^31, where two
\* neighbouring floats are 2^-ClockBits seconds apart.  In this section the
\* i-th bit of a sequence stands for 2^(i - 1 - ClockBits) seconds.
ClockBits == 22

\* a whole second that time.time() has reached
Epoch == 1761696000

\* the float of s seconds and k steps of 2^-ClockBits, s < 2^31
clock_float(s, k) ==
    [i \in 1..FLen |->
        IF i <= ClockBits THEN (k \div Pow2(i - 1)) % 2
        ELSE IF i > ClockBits + 31 THEN 0
        ELSE (s \div Pow2(i - ClockBits - 1)) % 2]

\* the last float before a whole second
LastStep == Pow2(ClockBits) - 1

\* what time.time() returns: a whole second, the float that follows it or
\* the float that precedes the next one
LogTimes ==
    {clock_float(Epoch + n, k) : n \in 0..MaxLogTime, k \in {0, 1, LastStep}}

\* requests[0] < now - time_window, for a request logged at req and a
\* time_window that is an int, as both decorators declare it
utils_expired(req, t, tw) ==
    /\ ~FloatLess(t, clock_float(tw, 0))
    /\ FloatLess(req, FloatSub(t, clock_float(tw, 0)))

\* while requests and requests[0] < now - time_window: requests.pop(0)
RECURSIVE float_prune_head(_, _, _)
float_prune_head(reqs, t, tw) ==
    IF reqs # << >> /\ utils_expired(Head(reqs), t, tw)
    THEN float_prune_head(Tail(reqs), t, tw)
    ELSE reqs

\* a limiter that drops a request once it is time_window old
limiter_keeps_strict(req, t, tw) ==
    FloatLess(FloatSub(t, req), clock_float(tw, 0))

\* current_time - req_time <= self.time_window
limiter_keeps(req, t, tw) ==
    ~FloatLess(clock_float(tw, 0), FloatSub(t, req))

\* the wrapper of utils.rate_limit up to its call of func, at the float t
float_utils_rate_limit(reqs, t, maxr, tw) ==
    LET pruned == float_prune_head(reqs, t, tw)
    IN  IF Len(pruned) >= maxr
        THEN [ok |-> FALSE, requests |-> pruned]
        ELSE [ok |-> TRUE, requests |-> Append(pruned, t)]

\* RateLimiter.can_make_request() at the float t
float_can_make_request(reqs, t, maxr, tw) ==
    LET kept == SelectSeq(reqs, LAMBDA req_time :
                                    limiter_keeps(req_time, t, tw))
    IN  IF Len(kept) < maxr
        THEN [ok |-> TRUE, requests |-> Append(kept, t)]
        ELSE [ok |-> FALSE, requests |-> kept]

InitLogs ==
    /\ now = 0
    /\ op = "init"
    /\ ret = FALSE
    /\ LimiterUnused
    /\ RetryUnused
    /\ BreakerUnused
    /\ func = "none"
    /\ max_requests \in {1, 2}
    /\ time_window = 2
    /\ requests = << >>
    /\ g = no_call
    /\ FloatUnused
    /\ ClientsUnused
    /\ TasksUnused
    /\ CacheUnused
    /\ FramesUnused
    /\ wall = clock_float(Epoch, 0)
    /\ logs = [utils |-> << >>, limiter |-> << >>,
               utils_ok |-> TRUE, limiter_ok |-> TRUE]

\* the clock advances between calls
LogTick ==
    /\ \E t \in LogTimes :
           /\ FloatLess(wall, t)
           /\ wall' = t
    /\ op' = "tick"
    /\ UNCHANGED <<now, ret, limiter_vars, retry_vars, breaker_vars,
                   gate_vars, float_vars, client_vars, task, logs,
                   cache_vars, frame>>

\* one call through each of the two decorators
log_call ==
    LET u == float_utils_rate_limit(logs.utils, wall, max_requests,
                                    time_window)
        l == float_can_make_request(logs.limiter, wall, max_requests,
                                    time_window)
    IN  /\ logs' = [utils |-> u.requests, limiter |-> l.requests,
                    utils_ok |-> u.ok, limiter_ok |-> l.ok]
        /\ op' = "call"
        /\ ret' = u.ok
        /\ UNCHANGED <<now, limiter_vars, retry_vars, breaker_vars,
                       gate_vars, float_vars, client_vars, task, wall,
                       cache_vars, frame>>

NextLogs == LogTick \/ log_call

SpecLogs == InitLogs /\ [][NextLogs]_vars

\* ------------------------------------------------------------------ Cache
\* The keys and values the callers pass.
Keys == {"a", "b", "c"}
Values == {"v", "w"}

\* key in d, for the OrderedDict or the dict d
has(d, key) == \E i \in 1..Len(d) : d[i].key = key

\* d[key]
item(d, key) == d[CHOOSE i \in 1..Len(d) : d[i].key = key]

\* the keys of d
keys_of(d) == {d[i].key : i \in 1..Len(d)}

\* del d[key]
del(d, key) == SelectSeq(d, LAMBDA e : e.key # key)

\* self.timestamps[key] = t: a key the dict holds keeps its place
stamp(ts, key, t) ==
    IF has(ts, key)
    THEN [i \in 1..Len(ts) |->
              IF ts[i].key = key THEN [key |-> key, at |-> t] ELSE ts[i]]
    ELSE Append(ts, [key |-> key, at |-> t])

\* Cache.delete(key)
cache_delete_of(c, ts, key) ==
    IF has(c, key)
    THEN [cache |-> del(c, key), timestamps |-> del(ts, key)]
    ELSE [cache |-> c, timestamps |-> ts]

\* a set() that overwrites a key it holds in place of deleting it first
cache_set_in_place(c, ts, key, value, t, size) ==
    LET full == Len(c) >= size
    IN  IF full /\ c = << >>
        THEN [cache |-> c, timestamps |-> ts]
        ELSE LET c1 == IF full THEN Tail(c) ELSE c
             IN  [cache |-> IF has(c1, key)
                            THEN [i \in 1..Len(c1) |->
                                      IF c1[i].key = key
                                      THEN [key |-> key, value |-> value]
                                      ELSE c1[i]]
                            ELSE Append(c1, [key |-> key, value |-> value]),
                  timestamps |-> stamp(ts, key, t)]

\* Cache.set(key, value) at time t.  popitem(last=False) on an empty
\* OrderedDict raises KeyError, which set() catches: nothing is stored.
cache_set_of(c, ts, key, value, t, size) ==
    LET d    == cache_delete_of(c, ts, key)
        full == Len(d.cache) >= size
    IN  IF full /\ d.cache = << >>
        THEN d
        ELSE LET c1 == IF full THEN Tail(d.cache) ELSE d.cache
             IN  [cache |-> Append(c1, [key |-> key, value |-> value]),
                  timestamps |-> stamp(d.timestamps, key, t)]

\* a get() that leaves the entry where it is in the OrderedDict
cache_get_unmoved(c, ts, key, t, life) ==
    IF ~has(c, key) \/ ~has(ts, key)
    THEN [cache |-> c, timestamps |-> ts, result |-> "None"]
    ELSE IF t - item(ts, key).at > life
    THEN [cache |-> del(c, key), timestamps |-> del(ts, key),
          result |-> "None"]
    ELSE [cache |-> c, timestamps |-> ts, result |-> item(c, key).value]

\* a get() that stamps the entry it returns
cache_get_refreshing(c, ts, key, t, life) ==
    IF ~has(c, key) \/ ~has(ts, key)
    THEN [cache |-> c, timestamps |-> ts, result |-> "None"]
    ELSE IF t - item(ts, key).at > life
    THEN [cache |-> del(c, key), timestamps |-> del(ts, key),
          result |-> "None"]
    ELSE [cache |-> Append(del(c, key), item(c, key)),
          timestamps |-> stamp(ts, key, t),
          result |-> item(c, key).value]

\* Cache.get(key) at time t.  A key without a timestamp would raise
\* KeyError, which get() catches and answers with None.
cache_get_of(c, ts, key, t, life) ==
    IF ~has(c, key) \/ ~has(ts, key)
    THEN [cache |-> c, timestamps |-> ts, result |-> "None"]
    ELSE IF t - item(ts, key).at > life
    THEN [cache |-> del(c, key), timestamps |-> del(ts, key),
          result |-> "None"]
    ELSE [cache |-> Append(del(c, key), item(c, key)),
          timestamps |-> ts,
          result |-> item(c, key).value]

\* Cache.cleanup() at time t: delete() of every key whose timestamp is older
\* than ttl, which removes the key only if the cache holds it
cache_cleanup_of(c, ts, t, life) ==
    LET expired_keys == {ts[i].key : i \in {j \in 1..Len(ts) :
                                               t - ts[j].at > life}}
        gone == expired_keys \cap keys_of(c)
    IN  [cache |-> SelectSeq(c, LAMBDA e : e.key \notin gone),
         timestamps |-> SelectSeq(ts, LAMBDA e : e.key \notin gone)]

\* history: key was used last
used(uses, key) == Append(SelectSeq(uses, LAMBDA k : k # key), key)

\* history: no set() of the key yet
never_set == [at |-> 0, value |-> "None"]

\* the arguments of a call that has none
no_arg == [key |-> "None", value |-> "None", result |-> "None"]

\* history: the fields before the call that is about to run
snapshot == [cache |-> cache, uses |-> hist.uses]

\* Cache(max_size, ttl)
InitCache ==
    /\ now = 0
    /\ op = "init"
    /\ ret = FALSE
    /\ LimiterUnused
    /\ RetryUnused
    /\ BreakerUnused
    /\ GateUnused
    /\ FloatUnused
    /\ ClientsUnused
    /\ TasksUnused
    /\ LogsUnused
    /\ FramesUnused
    /\ max_size \in {0, 1, 2}
    /\ ttl = 1
    /\ cache = << >>
    /\ timestamps = << >>
    /\ arg = no_arg
    /\ before = [cache |-> << >>, uses |-> << >>]
    /\ hist = [last_set |-> [k \in Keys |-> never_set], uses |-> << >>]

\* the clock advances between calls
CacheTick ==
    /\ now < MaxCacheTime
    /\ now' = now + 1
    /\ op' = "tick"
    /\ ret' = FALSE
    /\ arg' = no_arg
    /\ before' = snapshot
    /\ UNCHANGED <<limiter_vars, retry_vars, breaker_vars, gate_vars,
                   float_vars, client_vars, task, log_vars, frame, max_size, ttl,
                   cache, timestamps, hist>>

\* cache.set(key, value)
cache_set ==
    \E key \in Keys, value \in Values :
        LET r == cache_set_of(cache, timestamps, key, value, now, max_size)
        IN  /\ cache' = r.cache
            /\ timestamps' = r.timestamps
            /\ op' = "set"
            /\ ret' = FALSE
            /\ arg' = [key |-> key, value |-> value, result |-> "None"]
            /\ before' = snapshot
            /\ hist' = [last_set |-> [hist.last_set EXCEPT
                                          ![key] = [at |-> now,
                                                    value |-> value]],
                        uses |-> used(hist.uses, key)]
            /\ UNCHANGED <<now, limiter_vars, retry_vars, breaker_vars,
                           gate_vars, float_vars, client_vars, task,
                           log_vars, frame, max_size, ttl>>

\* cache.get(key)
cache_get ==
    \E key \in Keys :
        LET r == cache_get_of(cache, timestamps, key, now, ttl)
        IN  /\ cache' = r.cache
            /\ timestamps' = r.timestamps
            /\ op' = "get"
            /\ ret' = (r.result # "None")
            /\ arg' = [key |-> key, value |-> "None", result |-> r.result]
            /\ before' = snapshot
            /\ hist' = [hist EXCEPT !.uses = IF r.result # "None"
                                             THEN used(hist.uses, key)
                                             ELSE hist.uses]
            /\ UNCHANGED <<now, limiter_vars, retry_vars, breaker_vars,
                           gate_vars, float_vars, client_vars, task,
                           log_vars, frame, max_size, ttl>>

\* cache.delete(key)
cache_delete ==
    \E key \in Keys :
        LET r == cache_delete_of(cache, timestamps, key)
        IN  /\ cache' = r.cache
            /\ timestamps' = r.timestamps
            /\ op' = "delete"
            /\ ret' = FALSE
            /\ arg' = [key |-> key, value |-> "None", result |-> "None"]
            /\ before' = snapshot
            /\ UNCHANGED <<now, limiter_vars, retry_vars, breaker_vars,
                           gate_vars, float_vars, client_vars, task,
                           log_vars, frame, max_size, ttl, hist>>

\* cache.clear()
cache_clear ==
    /\ cache' = << >>
    /\ timestamps' = << >>
    /\ op' = "clear"
    /\ ret' = FALSE
    /\ arg' = no_arg
    /\ before' = snapshot
    /\ UNCHANGED <<now, limiter_vars, retry_vars, breaker_vars, gate_vars,
                   float_vars, client_vars, task, log_vars, frame, max_size, ttl,
                   hist>>

\* cache.cleanup()
cache_cleanup ==
    LET r == cache_cleanup_of(cache, timestamps, now, ttl)
    IN  /\ cache' = r.cache
        /\ timestamps' = r.timestamps
        /\ op' = "cleanup"
        /\ ret' = FALSE
        /\ arg' = no_arg
        /\ before' = snapshot
        /\ UNCHANGED <<now, limiter_vars, retry_vars, breaker_vars,
                       gate_vars, float_vars, client_vars, task, log_vars, frame,
                       max_size, ttl, hist>>

NextCache ==
    \/ CacheTick
    \/ cache_set
    \/ cache_get
    \/ cache_delete
    \/ cache_clear
    \/ cache_cleanup

SpecCache == InitCache /\ [][NextCache]_vars

\* -------------------------------------------- token bucket, float counts
\* Limits whose time windows are not powers of two, and one with a window of
\* period 0, which __init__ accepts like any other.
FloatConfigs ==
    { << [window |-> "a", max_requests |-> 1, time_window |-> 6] >>,
      << [window |-> "a", max_requests |-> 1, time_window |-> 6],
         [window |-> "b", max_requests |-> 1, time_window |-> 4] >>,
      << [window |-> "a", max_requests |-> 1, time_window |-> 6],
         [window |-> "z", max_requests |-> 1, time_window |-> 0] >> }

\* the items of a dict built in the opposite order
Reverse(lim) == [i \in 1..Len(lim) |-> lim[Len(lim) + 1 - i]]

\* RateLimiter(limits) constructed at time t; result is what the last
\* acquire() did
new_limiter(lim, t) ==
    [limits |-> lim,
     tokens |-> [w \in Windows(lim) |-> FInt(limit_of(lim, w).max_requests)],
     last_update |-> init_last_update(lim, t),
     result |-> "none"]

\* min(max_requests, tokens + time_passed * max_requests / time_window)
float_refill(limit, tok, time_passed) ==
    FloatMin(limit.max_requests,
             FloatAdd(tok, FloatDiv(time_passed * limit.max_requests,
                                    limit.time_window)))

\* the first loop of acquire() from the i-th window on, on the limiter l at
\* time t; the division raises ZeroDivisionError for a window of period 0,
\* before that window's tokens and last_update are assigned
RECURSIVE float_check(_, _, _)
float_check(l, i, t) ==
    IF i > Len(l.limits) THEN [l EXCEPT !.result = "True"]
    ELSE LET limit == l.limits[i]
             w     == limit.window
         IN  IF limit.time_window = 0
             THEN [l EXCEPT !.result = "ZeroDivisionError"]
             ELSE LET l1 == [l EXCEPT
                               !.tokens[w] = float_refill(
                                   limit, @, t - l.last_update[w]),
                               !.last_update[w] = t]
                  IN  IF LessThanOne(l1.tokens[w])
                      THEN [l1 EXCEPT !.result = "False"]
                      ELSE float_check(l1, i + 1, t)

\* RateLimiter.acquire() on the limiter l at time t
float_acquire_of(l, t) ==
    LET c == float_check(l, 1, t)
    IN  IF c.result = "True"
        THEN [c EXCEPT !.tokens = [w \in DOMAIN c.tokens |->
                                      MinusOne(c.tokens[w])]]
        ELSE c

InitFloat ==
    /\ now = 0
    /\ op = "init"
    /\ ret = FALSE
    /\ \E lim \in FloatConfigs :
           /\ bucket = new_limiter(lim, now)
           /\ reordered = new_limiter(Reverse(lim), now)
           /\ unprobed = new_limiter(lim, now)
    /\ LimiterUnused
    /\ RetryUnused
    /\ BreakerUnused
    /\ GateUnused
    /\ ClientsUnused
    /\ TasksUnused
    /\ RestUnused

\* the clock advances between calls
FloatTick ==
    /\ now < MaxFloatTime
    /\ now' = now + 1
    /\ op' = "tick"
    /\ UNCHANGED <<ret, limiter_vars, retry_vars, breaker_vars, gate_vars,
                   other_vars>>

\* one call of acquire(), made on the limiter and on its reordered twin; the
\* third limiter gets the call only if the first admits it
float_acquire ==
    LET r == float_acquire_of(bucket, now)
    IN  /\ bucket' = r
        /\ reordered' = float_acquire_of(reordered, now)
        /\ unprobed' = IF r.result = "True"
                       THEN float_acquire_of(unprobed, now)
                       ELSE unprobed
        /\ ret' = (r.result = "True")
        /\ op' = "acquire"
        /\ UNCHANGED <<now, limiter_vars, retry_vars, breaker_vars,
                       gate_vars, client_vars, task, rest_vars>>

NextFloat == FloatTick \/ float_acquire

SpecFloat == InitFloat /\ [][NextFloat]_vars

\* ------------------------------------------------------ token bucket claims
\* the admitted calls inside the interval (t - time_window, t]
AdmittedWithin(limit, t) ==
    {j \in 1..Len(admitted) :
        admitted[j] > t - limit.time_window /\ admitted[j] <= t}

\* C1: for every window, no interval of length time_window holds more than
\* max_requests calls for which acquire() returned True.
C1_SlidingWindowBound ==
    \A i \in 1..Len(limits) : \A k \in 1..Len(admitted) :
        Cardinality(AdmittedWithin(limits[i], admitted[k]))
            <= limits[i].max_requests

\* what window w holds after the refill acquire() gives it at time now
Refilled(w) ==
    Min(Capacity(limit_of(limits, w)),
        tokens[w] + (now - last_update[w]) * limit_of(limits, w).max_requests)

\* C2: acquire() is all-or-nothing: a call returning False lowers no window's
\* token count, a call returning True leaves every window at its refilled
\* count minus exactly one token.
C2_AllOrNothing ==
    [][op' = "acquire" =>
          IF ret'
          THEN \A w \in Windows(limits) :
                  tokens'[w] = Refilled(w) - limit_of(limits, w).time_window
          ELSE \A w \in Windows(limits) :
                  tokens'[w] \in {tokens[w], Refilled(w)}]_vars

\* a rejected call that found a whole token in one window and left it there
C2_Witness ==
    /\ op = "acquire"
    /\ ~ret
    /\ \E w \in Windows(limits) : tokens[w] >= limit_of(limits, w).time_window
    /\ \E w \in Windows(limits) : tokens[w] < limit_of(limits, w).time_window

\* C3: every window's token count stays within 0 .. max_requests.
C3_TokensInRange ==
    \A w \in Windows(limits) :
        /\ 0 <= tokens[w]
        /\ tokens[w] <= limit_of(limits, w).max_requests
                           * limit_of(limits, w).time_window

\* a rejected call after idle time: one window was refilled up to its
\* capacity while another one holds less than one token
C3_Witness ==
    /\ op = "acquire"
    /\ now > 0
    /\ \E w \in Windows(limits) :
          tokens[w] = limit_of(limits, w).max_requests
                        * limit_of(limits, w).time_window
    /\ ~ret
    /\ \E w \in Windows(limits) :
          tokens[w] < limit_of(limits, w).time_window

\* ------------------------------------------------------------ retry claims
RECURSIVE Pow(_, _)
Pow(b, e) == IF e = 0 THEN 1 ELSE b * Pow(b, e - 1)

\* a retry-wrapped call has been made
Called == op \in {"retry.retry_with_backoff", "utils.retry_with_backoff"}

\* the classes of error the wrapper that ran takes for retryable: those its
\* except clause names (the classes under `exceptions` in retry.py, the
\* classes under Exception in utils.py)
Retryable ==
    IF op = "retry.retry_with_backoff" /\ exceptions = "ConnectionError"
    THEN {"ConnectionError"}
    ELSE {"ConnectionError", "ValueError"}

\* the wrapped function has failed with a retryable error whenever it was
\* invoked
AlwaysRetryable ==
    \A k \in 1..Len(calls) : calls[k] \in Retryable

\* every invocation made has failed
AllFailed == Len(calls) >= 1 /\ \A k \in 1..Len(calls) : calls[k] # "ok"

\* C5: an operation failing with a retryable error on every attempt is
\* invoked exactly max_retries + 1 times, by either retry_with_backoff.
C5_AttemptsTotal ==
    (Called /\ AlwaysRetryable) => Len(calls) = max_retries + 1

\* min(initial_delay * backoff_factor^(k-1), max_delay); the decorator of
\* utils.py takes no backoff_factor (it doubles) and no max_delay
ExpectedDelay(k) ==
    IF op = "retry.retry_with_backoff"
    THEN Min(initial_delay * Pow(backoff_factor, k - 1), max_delay)
    ELSE initial_delay * Pow(2, k - 1)

\* C6: the k-th delay slept is min(initial_delay * backoff_factor^(k-1),
\* max_delay); an operation that always fails is followed by max_retries
\* delays, one before each retry, and no delay follows the last attempt.
C6_BackoffDelays ==
    Called =>
        /\ \A k \in 1..Len(delays) : delays[k] = ExpectedDelay(k)
        /\ AlwaysRetryable => Len(delays) = max_retries
        /\ Len(calls) >= 1 => Len(delays) = Len(calls) - 1

\* C7: an error outside the retryable classes ends the call at once: it is
\* the last invocation, it reaches the caller as it is, and no delay follows.
C7_NonRetryablePropagates ==
    Called =>
        \A k \in 1..Len(calls) :
            (calls[k] # "ok" /\ calls[k] \notin Retryable) =>
                /\ k = Len(calls)
                /\ outcome = [kind |-> "raise", cls |-> calls[k],
                              attempt |-> k, wrapped |-> FALSE]
                /\ Len(delays) = k - 1

\* a ValueError on the second of three allowed attempts, with only
\* ConnectionError retryable
C7_Witness ==
    /\ op = "retry.retry_with_backoff"
    /\ exceptions = "ConnectionError"
    /\ max_retries = 2
    /\ calls = <<"ConnectionError", "ValueError">>
    /\ outcome.kind = "raise"

\* C8 as claimed: when every attempt fails the caller gets a distinct
\* MaxRetriesExceeded error wrapping the error of the last attempt.
C8_MaxRetriesExceeded ==
    (Called /\ AllFailed) =>
        /\ outcome.kind = "raise"
        /\ outcome.wrapped
        /\ outcome.cls = calls[Len(calls)]
        /\ outcome.attempt = Len(calls)

\* ---------------------------------------------------------- breaker claims
\* C9: counting from a CLOSED breaker with no failures, the breaker is still
\* CLOSED after fewer than failure_threshold consecutive record_failure()
\* calls and is OPEN right after the failure_threshold-th one; a
\* record_success() in between restarts the count.
C9_OpensAtThreshold ==
    /\ streak < failure_threshold => state = "CLOSED"
    /\ (op = "record_failure" /\ streak >= failure_threshold) => state = "OPEN"
    /\ op = "record_success" => (streak = 0 /\ state = "CLOSED")

\* the breaker has just opened on the second of two failures in a row, some
\* time after construction
C9_Witness ==
    /\ op = "record_failure"
    /\ failure_threshold = 2
    /\ streak = failure_threshold
    /\ state = "OPEN"
    /\ now > 0

\* C10: can_execute() on an OPEN breaker returns False and stays OPEN while
\* now - last_failure_time < recovery_timeout, and returns True and moves to
\* HALF_OPEN once now - last_failure_time >= recovery_timeout.
C10_OpenCooldown ==
    [][(op' = "can_execute" /\ state = "OPEN") =>
          IF now - last_failure_time < recovery_timeout
          THEN ret' = FALSE /\ state' = "OPEN"
          ELSE ret' = TRUE /\ state' = "HALF_OPEN"]_vars

\* a call admitted at the boundary instant itself
C10_Witness ==
    /\ op = "can_execute"
    /\ ret
    /\ state = "HALF_OPEN"
    /\ now - last_failure_time = recovery_timeout

\* C11: whenever the breaker is OPEN, failure_count has reached
\* failure_threshold.
C11_OpenImpliesThreshold ==
    state = "OPEN" => failure_count >= failure_threshold

\* a failure recorded while the breaker was already OPEN
C11_Witness ==
    /\ op = "record_failure"
    /\ prev.state = "OPEN"
    /\ state = "OPEN"
    /\ failure_count > failure_threshold

\* C12: from HALF_OPEN one record_success() gives CLOSED with no failures and
\* one record_failure() gives OPEN with last_failure_time set to the current
\* time; the step from OPEN to HALF_OPEN keeps the failure count.
C12_HalfOpenTrial ==
    /\ (op = "record_success" /\ prev.state = "HALF_OPEN") =>
          (state = "CLOSED" /\ failure_count = 0)
    /\ (op = "record_failure" /\ prev.state = "HALF_OPEN") =>
          /\ state = "OPEN"
          /\ last_failure_time = now
          /\ failure_count = prev.failure_count + 1
    /\ (op = "can_execute" /\ prev.state = "OPEN" /\ state = "HALF_OPEN") =>
          failure_count = prev.failure_count

\* a failed trial: HALF_OPEN back to OPEN with a later last_failure_time
C12_Witness ==
    /\ op = "record_failure"
    /\ prev.state = "HALF_OPEN"
    /\ state = "OPEN"
    /\ last_failure_time > prev.last_failure_time

\* C27: while the breaker is HALF_OPEN, can_execute() returns True and
\* leaves state, failure_count and last_failure_time as they are, so every
\* further can_execute() is admitted as well.
C27_HalfOpenAdmitsAll ==
    (op = "can_execute" /\ prev.state = "HALF_OPEN") =>
        (ret /\ breaker_fields = prev)

\* a can_execute() on a breaker that an earlier can_execute() made HALF_OPEN
C27_Witness ==
    /\ op = "can_execute"
    /\ prev.state = "HALF_OPEN"
    /\ state = "HALF_OPEN"
    /\ ret

\* C13: record_success() always ends CLOSED with no failures and leaves
\* last_failure_time alone; on a breaker that is CLOSED with no failures it
\* changes nothing, and a second record_success() changes nothing more.
C13_SuccessIdempotent ==
    op = "record_success" =>
        /\ state = "CLOSED"
        /\ failure_count = 0
        /\ last_failure_time = prev.last_failure_time
        /\ (prev.state = "CLOSED" /\ prev.failure_count = 0) =>
              breaker_fields = prev
        /\ record_success_of(breaker_fields) = breaker_fields

\* record_success() on a breaker already CLOSED with no failures, which has
\* seen a failure earlier
C13_Witness ==
    /\ op = "record_success"
    /\ prev.state = "CLOSED"
    /\ prev.failure_count = 0
    /\ last_failure_time > 0

\* ------------------------------------------ more token bucket claims
\* the smallest max_requests over the windows
SmallestLimit ==
    CHOOSE n \in {limits[i].max_requests : i \in DOMAIN limits} :
        \A i \in DOMAIN limits : n <= limits[i].max_requests

\* C23: with no time elapsing since construction, the limiter admits exactly
\* the first N calls and rejects every later one, N the smallest max_requests:
\* a call is rejected only once N calls were admitted, and never more than N
\* are.
C23_FirstNAdmitted ==
    (now = 0 /\ op = "acquire") =>
        IF ret THEN Len(admitted) <= SmallestLimit
        ELSE Len(admitted) = SmallestLimit

\* single window of capacity 2: true, true, false
C23_Witness ==
    /\ now = 0
    /\ op = "acquire"
    /\ ~ret
    /\ Len(limits) = 1
    /\ SmallestLimit = 2
    /\ admitted = <<0, 0>>

\* ------------------------------------------------------- two-task claims
\* C25: with the methods of one breaker interleaved between tasks, an OPEN
\* breaker still has failure_count >= failure_threshold.
C25_OpenMeansThreshold ==
    state = "OPEN" => failure_count >= failure_threshold

\* C26: with overlapping calls through the decorator the breaker never goes
\* from OPEN directly to CLOSED, and no task enters record_failure() while
\* the breaker is OPEN.
C26_OpenThenHalfOpen ==
    [][state = "OPEN" =>
          /\ state' # "CLOSED"
          /\ \A t \in Tasks :
                 ~(task[t].pc = "func" /\ task'[t].pc = "record_failure_51")
      ]_vars

\* ----------------------------------------- claims on suspended calls
\* the step is one of the thread th
Moves(th) ==
    \/ task'[th] # task[th]
    \/ frame'[th] # frame[th]
    \/ thr'[th] # thr[th]

\* the thread th is inside can_execute(), on a path that can return False
Asking(th) ==
    task[th].pc \in {"can_execute_32", "can_execute_35", "can_execute_36",
                     "can_execute_36_compare"}

\* can_execute() has returned False to the wrapper that the thread th is
\* in, and the wrapper has not raised yet
Refused(th) == guarded /\ task[th].pc = "idle" /\ frame[th].pc = "called"

\* the same after the step
RefusedNext(th) ==
    guarded /\ task'[th].pc = "idle" /\ frame'[th].pc = "called"

\* the thread th is in the comparison of line 36 and the cooldown it finds
\* has not elapsed: this step makes can_execute() return False
Refusing(th) ==
    /\ task[th].pc = "can_execute_36_compare"
    /\ ~cooldown_elapsed(task[th].tmp, last_failure_time, recovery_timeout)

\* C15: in a guarded call the breaker is asked before the limiter.  The
\* limiter is asked only by a thread to which can_execute() has returned
\* True.  While a thread is inside can_execute(), and when can_execute() has
\* returned False to it, its steps leave the token count and the refill
\* stamp of every window, the request log and its own place in acquire() as
\* they were, ask no limiter and invoke no operation, whatever the other
\* thread does in between; a can_execute() that returns False is followed by
\* the raise, which ends the call (or the attempt of the retry wrapper
\* around it) as rejected by the breaker.
C15_BreakerBeforeBucket ==
    [][\A th \in Threads :
          /\ (guarded /\ frame'[th].consulted > frame[th].consulted) =>
                 /\ task[th].pc = "func"
                 /\ frame[th].checks >= 1
          /\ (guarded /\ Moves(th) /\ (Asking(th) \/ Refused(th))) =>
                 /\ tokens' = tokens
                 /\ last_update' = last_update
                 /\ requests' = requests
                 /\ admitted' = admitted
                 /\ thr' = thr
          /\ (guarded /\ Moves(th) /\ Asking(th)) =>
                 /\ frame'[th] = frame[th]
                 /\ Refusing(th) => RefusedNext(th)
          /\ (Moves(th) /\ Refused(th)) =>
                 /\ frame'[th].pc \in {"ended", "sleeping"}
                 /\ frame'[th].pc = "sleeping" =>
                        /\ frame'[th].consulted = frame[th].consulted
                        /\ frame'[th].invoked = frame[th].invoked
                 /\ frame'[th].pc = "ended" =>
                        /\ op' = "call"
                        /\ g'.rejected_by = "breaker"
                        /\ g'.consulted = frame[th].consulted
                        /\ g'.invoked = frame[th].invoked
                        /\ outcome'.kind = "raise"
          /\ (Refused(th) /\ ~retry_outside(frame[th])) =>
                 /\ frame[th].consulted = 0
                 /\ frame[th].invoked = 0
                 /\ thr[th] = idle_thread
      ]_vars

\* a call of post_tweet has been rejected by the open breaker after the call
\* of the other thread has taken tokens, and has taken none itself
C15_Witness ==
    /\ op = "call"
    /\ func = "post_tweet"
    /\ g.rejected_by = "breaker"
    /\ g.consulted = 0
    /\ g.invoked = 0
    /\ state = "OPEN"
    /\ \A w \in DOMAIN tokens :
           tokens[w] = Capacity(limit_of(limits, w)) - OneToken(limit_of(limits, w))

\* C28: a call that the circuit_breaker wrapper rejects does not invoke the
\* wrapped function and changes neither state nor failure_count nor
\* last_failure_time, so the instant at which can_execute() turns the
\* breaker HALF_OPEN, last_failure_time + recovery_timeout, is not
\* postponed by it.  A call is rejected by the comparison of line 36 that
\* finds the cooldown not elapsed, and by nothing else; on the way there and
\* from there to the raise the steps of the thread assign no field of the
\* breaker and invoke nothing, whatever the other thread does in between,
\* with the wrapper alone and with a retry wrapper around it.
C28_RejectionLeavesBreaker ==
    [][\A th \in Threads :
          /\ (guarded /\ Moves(th) /\ (Asking(th) \/ Refused(th))) =>
                 /\ state' = state
                 /\ failure_count' = failure_count
                 /\ last_failure_time' = last_failure_time
                 /\ last_failure_time' + recovery_timeout'
                        = last_failure_time + recovery_timeout
                 /\ frame'[th].invoked <= frame[th].invoked
                 /\ frame'[th].pc # "operation"
                 /\ frame'[th].reports \in {frame[th].reports, << >>}
          /\ (RefusedNext(th) /\ ~Refused(th)) => Refusing(th)
          /\ (Moves(th) /\ Refusing(th)) => RefusedNext(th)
          /\ (Moves(th) /\ Refused(th) /\ frame'[th].pc = "ended") =>
                 /\ g'.rejected_by = "breaker"
                 /\ g'.reports = frame[th].reports
                 /\ g'.invoked = frame[th].invoked
      ]_vars

\* can_execute() has returned False to the second attempt of a retry wrapper
\* whose first attempt opened the breaker, one second after that failure
C28_Witness ==
    \E th \in Threads :
        /\ func = "operation"
        /\ Refused(th)
        /\ retry_outside(frame[th])
        /\ frame[th].invoked = 1
        /\ frame[th].checks = 2
        /\ state = "OPEN"
        /\ failure_count >= failure_threshold
        /\ last_failure_time < now
        /\ now < last_failure_time + recovery_timeout

\* the number of entries of times that lie in from .. to
Within(times, from, to) ==
    Cardinality({i \in DOMAIN times : from <= times[i] /\ times[i] <= to})

\* the number of entries of times that equal t
Count(times, t) == Within(times, t, t)

\* the thread th is at the test of the length of the log
Deciding(th) == frame[th].pc \in {"rate_limit_77", "can_make_request_23"}

\* the thread th is at the append of its timestamp
Admitting(th) ==
    frame[th].pc \in {"rate_limit_81", "can_make_request_24_append"}

\* the step is the one in which the limiter denies the call of th
Denies(th) ==
    /\ Deciding(th)
    /\ frame'[th] # frame[th]
    /\ frame'[th].pc \notin {"rate_limit_81", "can_make_request_24"}

\* the step is the one in which the limiter admits the call of th
Admits(th) == Admitting(th) /\ frame'[th] # frame[th]

\* C24: a call through a rate_limit decorator is admitted iff fewer than
\* max_requests calls admitted before it have timestamps within the last
\* time_window seconds, counted back from the time the call read; from an
\* empty history the first max_requests calls are admitted; no interval of
\* length time_window holds more than max_requests admitted calls.
C24_SlidingLog ==
    [][(func \in {"search_tweets", "rate_limited"}) =>
          /\ \A th \in Threads :
                /\ Admits(th) =>
                       Within(admitted, frame[th].t - time_window, now)
                           < max_requests
                /\ Denies(th) =>
                       /\ Within(admitted, frame[th].t - time_window, now)
                              >= max_requests
                       /\ Len(admitted) >= max_requests
          /\ \A t \in 0..MaxThreadTime :
                 Within(admitted', t, t + time_window) <= max_requests
      ]_vars

\* C17: a logical call the rate limiter admits consumes exactly one quota
\* unit however many attempts the retry wrapper makes: the limiter is asked
\* once, before the retry loop; the operation and time.sleep leave the log
\* and the token bucket as they are; and every admitted call whose
\* timestamp is within time_window holds its one entry of the log, so the
\* log counts these calls one by one.
C17_OneQuotaUnit ==
    [][(func \in {"search_tweets", "rate_limited", "post_tweet"}) =>
          /\ \A th \in Threads :
                /\ frame'[th].pc \in {"operation", "sleeping"} =>
                       frame'[th].consulted = 1
                /\ (Moves(th) /\ frame[th].pc \in {"operation", "sleeping"}) =>
                       /\ requests' = requests
                       /\ tokens' = tokens
                       /\ last_update' = last_update
                       /\ frame'[th].consulted \in {0, 1}
          /\ func # "post_tweet" =>
                 \A t \in 0..now' :
                     now' - t <= time_window =>
                         Count(requests', t) = Count(admitted', t)
      ]_vars

\* whether the limiter of func would admit a call at time t with the log reqs
WouldAdmit(reqs, t) ==
    IF func = "search_tweets"
    THEN utils_rate_limit_of(reqs, t, max_requests, time_window).ok
    ELSE can_make_request_of(reqs, t, max_requests, time_window).ok

\* C32: a call rejected by a rate_limit decorator runs nothing and logs no
\* timestamp, and no step of a call other than the append of its timestamp
\* makes a later call be refused that would have been admitted; an admitted
\* call has its timestamp in the log when the function starts, and the
\* entry stays, whether the function returns or raises, until a call made
\* more than time_window later removes it.
C32_RejectionLogsNothing ==
    [][(func \in {"search_tweets", "rate_limited"}) =>
          /\ \A th \in Threads :
                /\ Denies(th) =>
                       /\ requests' = requests
                       /\ admitted' = admitted
                       /\ frame'[th].invoked = 0
                       /\ frame'[th].pc # "operation"
                /\ (Moves(th) /\ ~Admitting(th)) =>
                       \A t \in now..(MaxThreadTime + time_window + 1) :
                           WouldAdmit(requests, t) => WouldAdmit(requests', t)
                /\ Admits(th) =>
                       /\ Count(requests', frame[th].t) >= 1
                       /\ frame'[th].pc = "operation"
                /\ (Moves(th) /\ frame[th].pc \in {"operation", "sleeping"}) =>
                       requests' = requests
          /\ \A t \in 0..now :
                 Count(requests', t) < Count(requests, t) =>
                     \E th \in Threads :
                         /\ Moves(th)
                         /\ frame[th].t - t > time_window
      ]_vars

\* a call has ended and no other call has begun: what the variables hold is
\* what this one call left
Alone ==
    \E th \in Threads :
        /\ frame[th].pc = "ended"
        /\ \A other \in Threads \ {th} : frame[other].pc = "idle"

\* C14: under retry_with_backoff with its default retryable set, a call the
\* open breaker rejects is never retried: the rejection is the last attempt
\* of the retry loop, no sleep follows it and can_execute() is not asked
\* again.  A rejection appears in calls as the Exception that the breaker's
\* wrapper raises; the operation raises none of that class.
C14_RejectionNotRetried ==
    (op = "call" /\ func = "operation") =>
        \A k \in 1..Len(calls) :
            calls[k] = "Exception" =>
                /\ k = Len(calls)
                /\ Len(delays) < k
                /\ g.checks = k

\* a call through the breaker's wrapper around a rate-limited, retried
\* function has ended, and the breaker and the limiter had let it through
\* to the retry wrapper
Executed ==
    /\ op = "call"
    /\ guarded
    /\ func \in {"search_tweets", "post_tweet"}
    /\ g.rejected_by = "none"
    /\ g.consulted = 1

\* the retry wrapper gave up: every attempt it could make was made and
\* failed with an error the wrapper retries
Exhausted ==
    /\ outcome.kind = "raise"
    /\ Len(calls) = max_retries
    /\ \A k \in 1..Len(calls) :
           /\ calls[k] # "ok"
           /\ isinstance(calls[k], "Exception")

\* C16, as stated: one guarded call reports to the breaker exactly once,
\* record_success() if the retry wrapper finally succeeds, record_failure()
\* if it fails after its retries are exhausted, and then failure_count has
\* grown by exactly 1.  g.reports lists the reports the call made; when no
\* other call has been made, prev holds the fields the breaker had before
\* the call.
C16_ReportsExactlyOnce ==
    Executed =>
        /\ outcome.kind = "return" => g.reports = <<"record_success">>
        /\ Exhausted =>
               /\ g.reports = <<"record_failure">>
               /\ Alone => failure_count = prev.failure_count + 1

\* a guarded call that ends with an error the operation raised
OperationFailed ==
    /\ Executed
    /\ outcome.kind = "raise"
    /\ g.invoked >= 1
    /\ calls # << >>
    /\ outcome.cls = calls[Len(calls)]

\* C19, as stated: every error of the wrapped operation that ends a guarded
\* call counts as a breaker failure, whether or not it is retryable or of
\* the expected class: the call has made its record_failure(), which writes
\* last_failure_time, and failure_count has grown by 1.
C19_EveryErrorCounts ==
    OperationFailed =>
        /\ g.reports = <<"record_failure">>
        /\ Alone => failure_count = prev.failure_count + 1

\* the texts with which the breaker's wrapper rejects a call
BreakerTexts == {"CLOSED", "OPEN", "HALF_OPEN"}

\* C18: a call the rate limiter denies reaches its caller as an error, told
\* apart from a circuit-open rejection, and never as a normal return value.
C18_DenialIsAnError ==
    (op = "call" /\ g.rejected_by = "limiter") =>
        /\ outcome.kind = "raise"
        /\ g.msg \notin BreakerTexts

\* C20: a guarded call rejected for rate-limit reasons leaves the circuit
\* breaker as it was: the step in which the limiter denies the call of a
\* thread and every later step of that call leave state, failure_count and
\* last_failure_time as they are, so that the call changes none of them.
C20_DenialLeavesBreaker ==
    [][\A th \in Threads :
          (guarded /\ Moves(th) /\ (frame[th].denied \/ frame'[th].denied)) =>
              /\ state' = state
              /\ failure_count' = failure_count
              /\ last_failure_time' = last_failure_time
      ]_vars

\* C21: instances share no rate-limit state: with each thread calling
\* through an instance of its own, the call of a thread is the only call
\* through its instance, and from the empty history of a new instance
\* max_requests >= 1 admits it; no call through another instance makes the
\* limiter deny it.
C21_ClientsIndependent ==
    (/\ op = "call"
     /\ func = "search_tweets"
     /\ max_requests >= 1
     /\ \A a, b \in Threads : a # b => client[a] # client[b]) =>
        g.rejected_by # "limiter"

\* C31: one post_tweet invocation asks acquire() at most once, attempts the
\* API call at most once and never sleeps; inside its acquire() each window
\* is written once to take the token, with the count read just before less
\* one token, and a denied acquire() has taken none; a denied acquire() and
\* a failing API call both end in a None result.
C31_PostTweetOnce ==
    [][func = "post_tweet" =>
          \A th \in Threads :
              /\ frame'[th].consulted <= 1
              /\ frame'[th].invoked <= 1
              /\ frame'[th].pc # "sleeping"
              /\ frame'[th].delays = << >>
              /\ (Moves(th) /\ thr[th].pc \notin {"refill_store",
                                                 "deduct_store"}) =>
                     tokens' = tokens
              /\ (Moves(th) /\ thr[th].pc = "deduct_store") =>
                     LET l == limits[thr[th].i]
                     IN  /\ frame[th].consulted = 1
                         /\ tokens'[l.window] = thr[th].tmp - OneToken(l)
                         /\ \A w \in DOMAIN tokens \ {l.window} :
                                tokens'[w] = tokens[w]
                         /\ \/ /\ thr'[th].pc = "deduct_load"
                               /\ thr'[th].i = thr[th].i + 1
                            \/ /\ thr'[th].pc = "idle"
                               /\ thr'[th].ok
                               /\ thr[th].i = Len(limits)
              /\ (Moves(th) /\ thr[th].pc # "idle" /\ thr'[th].pc = "idle"
                            /\ ~thr'[th].ok) =>
                     thr[th].pc = "check"
              /\ (Moves(th) /\ thr[th].pc = "check"
                            /\ thr'[th].pc = "deduct_load") =>
                     thr'[th].i = 1
              /\ (frame[th].pc # "ended" /\ frame'[th].pc = "ended") =>
                     /\ op' = "call"
                     /\ g'.consulted <= 1
                     /\ g'.invoked <= 1
                     /\ delays' = << >>
                     /\ Len(calls') = g'.invoked
                     /\ g'.rejected_by = "limiter" =>
                            /\ outcome' = returned_None
                            /\ g'.invoked = 0
                     /\ (calls' # << >>
                             /\ isinstance(calls'[1], "Exception")) =>
                            outcome' = returned_None
      ]_vars

\* an API call that failed after a token was taken from each window: one
\* attempt, no sleep, None
C31_Witness ==
    /\ op = "call"
    /\ func = "post_tweet"
    /\ Alone
    /\ calls = <<"ConnectionError">>
    /\ delays = << >>
    /\ outcome = returned_None
    /\ max_retries >= 2
    /\ g.consulted = 1
    /\ g.invoked = 1
    /\ \A w \in DOMAIN tokens :
           tokens[w] = Capacity(limit_of(limits, w))
                           - OneToken(limit_of(limits, w))

\* ------------------------------------------------------ more retry claims
\* the call through either decorator has ended
RetryCallDone ==
    op \in {"retry.retry_with_backoff", "utils.retry_with_backoff"}

\* what the first invocation of the operation ended with
FirstOutcome ==
    IF calls[1] = "ok" THEN returned(1) ELSE raised(calls[1], 1)

\* C34: a retry-wrapped operation is invoked at least once; with
\* max_retries = 0 it is invoked exactly once and the caller sees its result
\* or its own error.
C34_InvokedAtLeastOnce ==
    RetryCallDone =>
        /\ Len(calls) >= 1
        /\ max_retries = 0 => /\ Len(calls) = 1
                              /\ outcome = FirstOutcome

\* C35: when the operation first succeeds on attempt k, the wrapper returns
\* that result at once: k invocations in order, k - 1 sleeps, and nothing of
\* the failed attempts in what the caller gets.
C35_FirstSuccessReturned ==
    RetryCallDone /\ calls # << >> /\ calls[Len(calls)] = "ok" =>
        /\ \A i \in 1..(Len(calls) - 1) : calls[i] # "ok"
        /\ Len(delays) = Len(calls) - 1
        /\ outcome = returned(Len(calls))

\* a call through retry.py that succeeded on its third attempt
C35_Witness ==
    /\ op = "retry.retry_with_backoff"
    /\ Len(calls) = 3
    /\ calls[1] = "ConnectionError"
    /\ calls[3] = "ok"
    /\ Len(delays) = 2
    /\ outcome = returned(3)

\* C36: a call through either wrapper ends, returning a result or raising,
\* after at most max_retries + 1 invocations and at most max_retries sleeps,
\* whatever the operation does on each invocation.
C36_BoundedAttempts ==
    /\ [](RetryCallDone =>
             /\ outcome.kind \in {"return", "raise"}
             /\ Len(calls) <= max_retries + 1
             /\ Len(delays) <= max_retries)
    /\ [](\A th \in Threads :
             /\ Len(frame[th].calls) <= max_retries + 1
             /\ Len(frame[th].delays) <= max_retries)
    /\ \A th \in Threads :
           (frame[th].pc \in {"operation", "sleeping"})
               ~> (frame[th].pc = "ended")

\* a call through utils.py that used up its attempts on failures
C36_Witness ==
    /\ op = "utils.retry_with_backoff"
    /\ max_retries = 2
    /\ calls = <<"ConnectionError", "ValueError">>
    /\ outcome.kind = "raise"

\* ------------------------------------------------------ sliding-log claims
\* C33: with equal max_requests and time_window and the same non-decreasing
\* call times, utils.rate_limit admits a call exactly when
\* RateLimiter.can_make_request() returns True.
C33_SameDecisions ==
    op = "call" => logs.utils_ok = logs.limiter_ok

\* a call made exactly time_window after the admitted call that fills the
\* window: both decorators refuse it
C33_Witness ==
    /\ op = "call"
    /\ max_requests = 1
    /\ wall = clock_float(Epoch + time_window, 0)
    /\ logs.utils = <<clock_float(Epoch, 0)>>
    /\ logs.limiter = <<clock_float(Epoch, 0)>>
    /\ ~logs.utils_ok
    /\ ~logs.limiter_ok

\* a call made one float later than that: both decorators admit it
C33_WitnessAfter ==
    /\ op = "call"
    /\ max_requests = 1
    /\ wall = clock_float(Epoch + time_window, 1)
    /\ logs.utils = <<wall>>
    /\ logs.limiter = <<wall>>
    /\ logs.utils_ok
    /\ logs.limiter_ok

\* ------------------------------------------------------------ cache claims
\* C37: after any sequence of set, get, delete, clear and cleanup calls the
\* keys that hold a timestamp are the keys that hold a cached value.
C37_SameKeys == keys_of(timestamps) = keys_of(cache)

\* the last call was a set() of a key the cache held, made on a full cache
SetOfHeldKey ==
    /\ op = "set"
    /\ has(before.cache, arg.key)
    /\ Len(before.cache) >= max_size

\* C38: with max_size >= 1 the cache never holds more than max_size entries,
\* and a set() of a key that a full cache holds replaces the key's value and
\* evicts no other key.
C38_SizeBounded ==
    max_size >= 1 =>
        /\ Len(cache) <= max_size
        /\ SetOfHeldKey =>
               /\ keys_of(cache) = keys_of(before.cache)
               /\ item(cache, arg.key).value = arg.value
               /\ \A k \in keys_of(cache) \ {arg.key} :
                      item(cache, k) = item(before.cache, k)

\* a full cache of two entries after a set() that changed the value of one
C38_Witness ==
    /\ SetOfHeldKey
    /\ max_size = 2
    /\ Len(before.cache) = 2
    /\ item(before.cache, arg.key).value # arg.value
    /\ Len(cache) = 2

\* the last call was a set() of a key the cache did not hold, made on a full
\* cache
SetOfNewKey ==
    /\ op = "set"
    /\ max_size >= 1
    /\ ~has(before.cache, arg.key)
    /\ Len(before.cache) >= max_size

\* the place of a key in the order of last use
UsePlace(uses, key) == CHOOSE i \in 1..Len(uses) : uses[i] = key

\* the key of the cache c whose last set() or successful get() is the oldest
LeastRecentlyUsed(c, uses) ==
    CHOOSE k \in keys_of(c) :
        \A j \in keys_of(c) : UsePlace(uses, k) <= UsePlace(uses, j)

\* C39: a set() that inserts a new key into a full cache evicts one entry,
\* the one whose last set() or successful get() is the oldest, and keeps
\* every other entry and its value.
C39_EvictsLeastRecentlyUsed ==
    SetOfNewKey =>
        LET lru == LeastRecentlyUsed(before.cache, before.uses)
        IN  /\ keys_of(cache) =
                   (keys_of(before.cache) \ {lru}) \cup {arg.key}
            /\ item(cache, arg.key).value = arg.value
            /\ \A k \in keys_of(before.cache) \ {lru} :
                   /\ item(cache, k) = item(before.cache, k)
                   /\ has(timestamps, k)

\* an eviction that spared the entry set first, because a get() had used it
\* since
C39_Witness ==
    /\ SetOfNewKey
    /\ max_size = 2
    /\ \E gone \in keys_of(before.cache) \ keys_of(cache) :
           \E kept \in keys_of(before.cache) \cap keys_of(cache) :
               hist.last_set[kept].at < hist.last_set[gone].at

\* the age of a key's entry: the time since the last set() of the key
Age(key) == now - hist.last_set[key].at

\* C40: get() returns no value older than ttl: for a cached key set more than
\* ttl ago it returns None and removes the entry; for a cached key set
\* within ttl it returns the value last set, however often get() was called
\* since.
C40_NothingOlderThanTtl ==
    op = "get" =>
        /\ arg.result # "None" =>
               /\ hist.last_set[arg.key] # never_set
               /\ Age(arg.key) <= ttl
               /\ arg.result = hist.last_set[arg.key].value
        /\ has(before.cache, arg.key) /\ Age(arg.key) > ttl =>
               /\ arg.result = "None"
               /\ ~has(cache, arg.key)
        /\ has(before.cache, arg.key) /\ Age(arg.key) <= ttl =>
               arg.result = hist.last_set[arg.key].value

\* a get() of a key that was cached and had outlived ttl
C40_Witness ==
    /\ op = "get"
    /\ has(before.cache, arg.key)
    /\ Age(arg.key) > ttl
    /\ arg.result = "None"
    /\ ~has(cache, arg.key)

\* ------------------------------------------------- float token bucket claims
\* every window of the limiter has a period other than 0
ValidWindows == \A i \in DOMAIN bucket.limits : bucket.limits[i].time_window # 0

\* C22: a limiter with a window of period 0 is rejected at construction, so
\* no acquire() is ever evaluated against such a window.
C22_ZeroWindowRejected == op = "acquire" => ValidWindows

\* C29: the same calls at the same times give the same results whatever the
\* order in which the windows were configured.
C29_WindowOrderIrrelevant ==
    ValidWindows => bucket.result = reordered.result

\* C30: two histories with the same admitted calls at the same times, one
\* with rejected calls in between and one without, give the same result to an
\* acquire() made now.
C30_RejectionsLeaveNoTrace ==
    ValidWindows =>
        float_acquire_of(bucket, now).result
            = float_acquire_of(unprobed, now).result

\* --------------------------------------------------- token bucket, threads
\* no thread is inside acquire()
AllIdle == \A th \in Threads : thr[th].pc = "idle"

\* C4: concurrent acquire() calls behave as one atomic refill-check-deduct
\* step each: the calls admitted never outnumber the tokens the window has
\* had (so two callers never both get True for a single token), and once
\* every call has returned each admitted call has cost its token exactly once.
C4_AtomicAcquire ==
    \A i \in 1..Len(limits) :
        /\ Len(admitted) * limits[i].time_window
              <= limits[i].max_requests * limits[i].time_window
                   + now * limits[i].max_requests
        /\ AllIdle =>
              /\ tokens[limits[i].window] >= 0
              /\ tokens[limits[i].window] + Len(admitted) * limits[i].time_window
                    <= limits[i].max_requests * limits[i].time_window
                         + now * limits[i].max_requests

====
